---------------------------- MODULE Spec2Model ----------------------------
(***************************************************************************)
(* A model of chessnote: the board state (ChessState), the move legality   *)
(* checker (ChessChecker), the notation parser (ChessParser) and the       *)
(* history recorder (ChessRecorder).                                       *)
(*                                                                         *)
(* Representation.                                                         *)
(*  - A position is a pair <<x, y>> of integers (column, row); callers may *)
(*    pass positions outside the grid.                                     *)
(*  - A piece is a string; the 14 piece symbols are the one-character     *)
(*    strings of _VALID_PIECES.                                            *)
(*  - A ChessState is its _pieces dict: a sequence of [pos, piece] entries *)
(*    in insertion order, with unique positions (a Python dict).           *)
(*  - A command is a sequence of glyphs, one per character.  Glyphs are    *)
(*    written in ASCII: "zh_R zh_H zh_E zh_A zh_K zh_C zh_P" are the red   *)
(*    piece characters (che ma xiang shi shuai pao bing), "tr_r tr_h tr_e  *)
(*    tr_a tr_k tr_c tr_p" the black ones (ju ma xiang shi jiang pao zu),  *)
(*    "cn1".."cn10" the Chinese numerals yi..shi, "0".."9" the Arabic      *)
(*    digits, "ping jin tui" the operators, "qian zhong hou" the           *)
(*    front/middle/back keywords.                                          *)
(*  - Python objects that can be aliased (deque, node state, node          *)
(*    extra_info dict, checkpoint dict) carry an identity next to their    *)
(*    contents; a fresh object gets an identity no live object has.        *)
(*  - An operation that raises returns the exception's type in "err"       *)
(*    ("" when it returns normally).                                       *)
(***************************************************************************)
EXTENDS Integers, Sequences, FiniteSets, TLC

\* ------------------------------------------------------------------ bounds
\* History length up to which move/exec are explored (one recorder).
MaxHist == 3
\* History length up to which move/exec are explored (two recorders).
MaxHistCopy == 3
\* Largest rollback step count explored.
MaxSteps == 2
\* Largest number of pieces on a ChessState explored on its own.
MaxPieces == 2
\* Largest column or row distance from the piece under test to the end
\* given to check_move.
MaxDelta == 2
\* Largest number of commands in a text given to normalize_cmds.
MaxTokens == 3
\* Longest history when the program also writes into the boards it holds
\* (SpecOwn).
MaxHistOwn == 2

\* --------------------------------------------------------------- ChessState
_ROWS_NUM == 10
_COLS_NUM == 9

\* the string "RrHhEeAaCcPpKk", one entry per character
_VALID_PIECES == <<"R", "r", "H", "h", "E", "e", "A", "a", "C", "c", "P", "p", "K", "k">>

\* the str made of the characters chars[i..j]
RECURSIVE StrJoin(_, _, _)
StrJoin(chars, i, j) == IF i > j THEN "" ELSE chars[i] \o StrJoin(chars, i + 1, j)

\* the strings s for which "s in text" holds: the substrings of text, the
\* empty string among them
Substrings(text) ==
    {StrJoin(text, i, j) : i \in 1..(Len(text) + 1), j \in 0..Len(text)}

ValidPieceStrings == Substrings(_VALID_PIECES)

\* str.isupper / str.islower / str.lower on a piece symbol
IsUpper(piece) == piece \in {"R", "H", "E", "A", "C", "P", "K"}

IsLower(piece) == piece \in {"r", "h", "e", "a", "c", "p", "k"}

Lower(piece) ==
    CASE piece \in {"R", "r"} -> "r"
      [] piece \in {"H", "h"} -> "h"
      [] piece \in {"E", "e"} -> "e"
      [] piece \in {"A", "a"} -> "a"
      [] piece \in {"C", "c"} -> "c"
      [] piece \in {"P", "p"} -> "p"
      [] piece \in {"K", "k"} -> "k"
      [] OTHER -> piece

Upper(piece) ==
    CASE piece \in {"R", "r"} -> "R"
      [] piece \in {"H", "h"} -> "H"
      [] piece \in {"E", "e"} -> "E"
      [] piece \in {"A", "a"} -> "A"
      [] piece \in {"C", "c"} -> "C"
      [] piece \in {"P", "p"} -> "P"
      [] piece \in {"K", "k"} -> "K"
      [] OTHER -> piece

Max(a, b) == IF a > b THEN a ELSE b

Min(a, b) == IF a < b THEN a ELSE b

\* a variant of abs that leaves negative numbers as they are
Abs_Identity(n) == n

Abs(n) == IF n < 0 THEN -n ELSE n

\* ChessState._check_key: TRUE when the key passes (no KeyError)
_check_key(key) ==
    /\ 0 <= key[1] /\ key[1] < _COLS_NUM
    /\ 0 <= key[2] /\ key[2] < _ROWS_NUM

\* ChessState._check_piece on a str: TRUE when the piece passes (no
\* ValueError), that is when "piece in _VALID_PIECES", a substring test
_check_piece(piece) == piece \in ValidPieceStrings

\* dict lookup: key in self._pieces
InPieces(pieces, key) == \E i \in 1..Len(pieces) : pieces[i].pos = key

\* Mapping.__contains__ over ChessState.__getitem__: a KeyError of
\* _check_key or of the dict is caught and gives False.
Contains(state, key) == _check_key(key) /\ InPieces(state, key)

\* ChessState.__getitem__ on a key that is present
GetItem(state, key) == state[CHOOSE i \in 1..Len(state) : state[i].pos = key].piece

\* dict.__setitem__: an existing key keeps its place, a new key goes last
DictSet(pieces, key, value) ==
    IF InPieces(pieces, key)
    THEN [i \in 1..Len(pieces) |->
            IF pieces[i].pos = key THEN [pos |-> key, piece |-> value] ELSE pieces[i]]
    ELSE Append(pieces, [pos |-> key, piece |-> value])

\* dict.__delitem__ on a key that is present
DictDel(pieces, key) == SelectSeq(pieces, LAMBDA e : e.pos # key)

\* ChessState.__setitem__
SetItem(state, key, value) ==
    IF ~_check_key(key) THEN [err |-> "KeyError", state |-> state]
    ELSE IF ~_check_piece(value) THEN [err |-> "ValueError", state |-> state]
    ELSE [err |-> "", state |-> DictSet(state, key, value)]

\* ChessState.move: self[end] = self[start]; del self[start]
StateMove(state, start, end) ==
    IF ~InPieces(state, start) THEN [err |-> "ValueError", state |-> state]
    ELSE LET put == SetItem(state, end, GetItem(state, start))
         IN IF put.err # "" THEN put
            ELSE [err |-> "", state |-> DictDel(put.state, start)]

\* ChessState.__delitem__
DelItem(state, key) ==
    IF ~_check_key(key) THEN [err |-> "KeyError", state |-> state]
    ELSE IF ~InPieces(state, key) THEN [err |-> "KeyError", state |-> state]
    ELSE [err |-> "", state |-> DictDel(state, key)]

\* ChessState.rotate_pieces: every entry, in order, goes to (8 - x, 9 - y)
rotate_pieces(state) ==
    [i \in 1..Len(state) |->
        [pos |-> <<8 - state[i].pos[1], 9 - state[i].pos[2]>>, piece |-> state[i].piece]]

\* the piece strings told apart character by character: those of up to two
\* characters of _VALID_PIECES
PieceChars ==
    UNION {[1..n -> {_VALID_PIECES[i] : i \in 1..Len(_VALID_PIECES)}] : n \in 0..2}

\* str.swapcase: every character changes case
swapcase(piece) ==
    LET chars == CHOOSE c \in PieceChars : StrJoin(c, 1, Len(c)) = piece
        swapped == [i \in 1..Len(chars) |->
                      IF IsUpper(chars[i]) THEN Lower(chars[i]) ELSE Upper(chars[i])]
    IN StrJoin(swapped, 1, Len(swapped))

\* ChessState.swap_pieces
swap_pieces(state) ==
    [i \in 1..Len(state) |-> [pos |-> state[i].pos, piece |-> swapcase(state[i].piece)]]

\* str(n) of an int
RECURSIVE NatStr(_)
NatStr(n) ==
    IF n < 10 THEN <<"0", "1", "2", "3", "4", "5", "6", "7", "8", "9">>[n + 1]
    ELSE NatStr(n \div 10) \o NatStr(n % 10)

IntStr(n) == IF n < 0 THEN "-" \o NatStr(-n) ELSE NatStr(n)

\* str(pos) of a tuple of two ints, as in "(0, 1)"
PosStr(pos) == "(" \o IntStr(pos[1]) \o ", " \o IntStr(pos[2]) \o ")"

\* ast.literal_eval(key) of the str of a tuple of two ints, each of them
\* from -1 to 10
literal_eval(key) == CHOOSE pos \in ((-1)..10) \X ((-1)..10) : PosStr(pos) = key

\* ChessStateIO.save_to_dict: the entries [key, piece] in order
save_to_dict(state) ==
    [i \in 1..Len(state) |-> [key |-> PosStr(state[i].pos), piece |-> state[i].piece]]

\* the loop of load_from_dict from entry i on: state[pos] = piece
RECURSIVE LoadLoop(_, _, _)
LoadLoop(data, i, state) ==
    IF i > Len(data) THEN [err |-> "", state |-> state]
    ELSE LET Step(put) ==
                 IF put.err # "" THEN [err |-> put.err, state |-> <<>>]
                 ELSE LoadLoop(data, i + 1, put.state)
         IN CHOOSE out \in {Step(q) : q \in
              {SetItem(state, literal_eval(data[i].key), data[i].piece)}} : TRUE

\* ChessStateIO.load_from_dict: a new state filled from data
load_from_dict(data) == LoadLoop(data, 1, <<>>)

\* Mapping.__eq__: equal as mappings, whatever the insertion order
AsMap(state) == {<<state[i].pos, state[i].piece>> : i \in 1..Len(state)}

StateEq(s, t) == AsMap(s) = AsMap(t)

\* ------------------------------------------------------------- ChessChecker
\* a variant of _count_between that counts the end square too
_count_between_ToEnd(cur_state, start, end) ==
    IF start[1] = end[1]
    THEN Cardinality({y \in Min(start[2], end[2])..Max(start[2], end[2]) :
                        y # start[2] /\ Contains(cur_state, <<start[1], y>>)})
    ELSE IF start[2] = end[2]
    THEN Cardinality({x \in Min(start[1], end[1])..Max(start[1], end[1]) :
                        x # start[1] /\ Contains(cur_state, <<x, start[2]>>)})
    ELSE -1
\* a variant of _count_between that never finds a piece
_count_between_None(cur_state, start, end) ==
    IF start[1] = end[1] \/ start[2] = end[2] THEN 0 ELSE -1

\* ChessChecker._count_between; -1 stands for the ValueError "Must be
\* aligned on row/col".  range(a + step, b, step) is the open interval.
_count_between(cur_state, start, end) ==
    LET sx == start[1]
        sy == start[2]
        ex == end[1]
        ey == end[2]
        lo(a, b) == IF a < b THEN a ELSE b
        hi(a, b) == IF a < b THEN b ELSE a
    IN IF sx = ex
       THEN Cardinality({y \in (lo(sy, ey) + 1)..(hi(sy, ey) - 1) : Contains(cur_state, <<sx, y>>)})
       ELSE IF sy = ey
       THEN Cardinality({x \in (lo(sx, ex) + 1)..(hi(sx, ex) - 1) : Contains(cur_state, <<x, sy>>)})
       ELSE -1

\* ChessChecker._check_in_palace
_check_in_palace(pos, color, rotate_flag) ==
    IF (color = "red" /\ ~rotate_flag) \/ (color = "black" /\ rotate_flag)
    THEN 3 <= pos[1] /\ pos[1] <= 5 /\ 0 <= pos[2] /\ pos[2] <= 2
    ELSE 3 <= pos[1] /\ pos[1] <= 5 /\ 7 <= pos[2] /\ pos[2] <= 9

\* a variant of _check_in_side that takes every square for the own half
_check_in_side_Always(pos, color, rotate_flag) == TRUE

\* ChessChecker._check_in_side
_check_in_side(pos, color, rotate_flag) ==
    IF (color = "red" /\ ~rotate_flag) \/ (color = "black" /\ rotate_flag)
    THEN pos[2] <= 4
    ELSE pos[2] >= 5

\* The piece-specific branch of check_move; "" when the move passes,
\* otherwise the message of the ValueError raised.
PieceRule(cur_state, start, end, rotate_flag, piece) ==
    LET color == IF IsUpper(piece) THEN "red" ELSE "black"
        side == IF (color = "red" /\ ~rotate_flag) \/ (color = "black" /\ rotate_flag)
                THEN "down" ELSE "up"
        sx == start[1]
        sy == start[2]
        dx == end[1] - start[1]
        dy == end[2] - start[2]
        shape == <<Abs(dx), Abs(dy)>>
    IN CASE piece \in {"R", "r"} ->
              IF ~(dx = 0 \/ dy = 0) THEN "Rook must move straight"
              ELSE IF _count_between(cur_state, start, end) # 0 THEN "Rook path blocked"
              ELSE ""
         [] piece \in {"H", "h"} ->
              IF shape \notin {<<1, 2>>, <<2, 1>>} THEN "Knight must move in ri-shape"
              ELSE LET block == IF Abs(dx) = 2 THEN <<sx + (dx \div 2), sy>>
                                ELSE <<sx, sy + (dy \div 2)>>
                   IN IF Contains(cur_state, block) THEN "Knight's leg blocked" ELSE ""
         [] piece \in {"E", "e"} ->
              IF shape # <<2, 2>> THEN "Elephant must move 2 diagonally"
              ELSE IF Contains(cur_state, <<sx + (dx \div 2), sy + (dy \div 2)>>)
              THEN "Elephant's eye blocked"
              ELSE IF ~_check_in_side(end, color, rotate_flag)
              THEN "Elephant cannot cross the river"
              ELSE ""
         [] piece \in {"A", "a"} ->
              IF shape # <<1, 1>> THEN "Advisor must move 1 diagonally"
              ELSE IF ~_check_in_palace(end, color, rotate_flag)
              THEN "Advisor must stay inside palace"
              ELSE ""
         [] piece \in {"K", "k"} ->
              IF shape \notin {<<1, 0>>, <<0, 1>>} THEN "King must move 1 step orthogonally"
              ELSE IF ~_check_in_palace(end, color, rotate_flag)
              THEN "King must stay inside palace"
              ELSE ""
         [] piece \in {"C", "c"} ->
              IF ~(dx = 0 \/ dy = 0) THEN "Cannon must move straight"
              ELSE IF Contains(cur_state, end)
              THEN IF _count_between(cur_state, start, end) # 1
                   THEN "Cannon must jump exactly one piece when capturing" ELSE ""
              ELSE IF _count_between(cur_state, start, end) # 0
                   THEN "Cannon path blocked" ELSE ""
         [] OTHER ->
              IF shape \notin {<<1, 0>>, <<0, 1>>} THEN "Pawn must move 1 step"
              ELSE IF (side = "up" /\ dy > 0) \/ (side = "down" /\ dy < 0)
              THEN "Pawn cannot move backward"
              ELSE IF _check_in_side(end, color, rotate_flag) /\ dx # 0
              THEN "Pawn cannot move sideways before crossing river"
              ELSE ""

\* a variant of check_move without the check of the piece at end
check_move_NoOwnCapture(cur_state, start, end, rotate_flag) ==
    IF ~Contains(cur_state, start) THEN "No piece at start"
    ELSE IF start = end THEN "Start and end cannot be the same"
    ELSE PieceRule(cur_state, start, end, rotate_flag, GetItem(cur_state, start))

\* ChessChecker.check_move; "" when it returns True, otherwise the message
\* of the ValueError raised.
check_move(cur_state, start, end, rotate_flag) ==
    IF ~Contains(cur_state, start) THEN "No piece at start"
    ELSE IF start = end THEN "Start and end cannot be the same"
    ELSE LET piece == GetItem(cur_state, start)
         IN IF /\ Contains(cur_state, end)
               /\ \/ IsUpper(piece) /\ IsUpper(GetItem(cur_state, end))
                  \/ IsLower(piece) /\ IsLower(GetItem(cur_state, end))
            THEN "Cannot capture own piece"
            ELSE PieceRule(cur_state, start, end, rotate_flag, piece)

\* -------------------------------------------------------------- ChessParser
\* \d of detect_color and str.isdigit of parse_col_idx / parse_row_delta
Digits == {"0", "1", "2", "3", "4", "5", "6", "7", "8", "9"}

\* the character class of detect_color: yi er san si wu liu qi ba jiu shi
ChineseNumerals == {"cn1", "cn2", "cn3", "cn4", "cn5", "cn6", "cn7", "cn8", "cn9", "cn10"}

\* int(ch) of an Arabic digit
DigitValue(ch) ==
    CASE ch = "0" -> 0 [] ch = "1" -> 1 [] ch = "2" -> 2 [] ch = "3" -> 3
      [] ch = "4" -> 4 [] ch = "5" -> 5 [] ch = "6" -> 6 [] ch = "7" -> 7
      [] ch = "8" -> 8 [] ch = "9" -> 9

\* CHINESE_IDX / CHINESE_NUM: the keys are yi..jiu (shi is not a key)
CHINESE_IDX == {"cn1", "cn2", "cn3", "cn4", "cn5", "cn6", "cn7", "cn8", "cn9"}

ChineseValue(ch) ==
    CASE ch = "cn1" -> 1 [] ch = "cn2" -> 2 [] ch = "cn3" -> 3 [] ch = "cn4" -> 4
      [] ch = "cn5" -> 5 [] ch = "cn6" -> 6 [] ch = "cn7" -> 7 [] ch = "cn8" -> 8
      [] ch = "cn9" -> 9

\* ChessParser.detect_color; "" stands for the ValueError
detect_color(cmd) ==
    IF \E i \in 1..Len(cmd) : cmd[i] \in Digits THEN "black"
    ELSE IF \E i \in 1..Len(cmd) : cmd[i] \in ChineseNumerals THEN "red"
    ELSE ""

\* ChessParser.detect_side
detect_side(color, rotate_flag) ==
    IF ~rotate_flag
    THEN (IF color = "red" THEN "down" ELSE "up")
    ELSE (IF color = "black" THEN "down" ELSE "up")

\* RED_PIECES / BLACK_PIECES of parse_piece_char
RED_PIECES == {"zh_R", "zh_H", "zh_E", "zh_A", "zh_K", "zh_C", "zh_P"}

BLACK_PIECES == {"tr_r", "tr_h", "tr_e", "tr_a", "tr_k", "tr_c", "tr_p"}

GlyphPiece(piece_ch) ==
    CASE piece_ch = "zh_R" -> "R" [] piece_ch = "zh_H" -> "H" [] piece_ch = "zh_E" -> "E"
      [] piece_ch = "zh_A" -> "A" [] piece_ch = "zh_K" -> "K" [] piece_ch = "zh_C" -> "C"
      [] piece_ch = "zh_P" -> "P"
      [] piece_ch = "tr_r" -> "r" [] piece_ch = "tr_h" -> "h" [] piece_ch = "tr_e" -> "e"
      [] piece_ch = "tr_a" -> "a" [] piece_ch = "tr_k" -> "k" [] piece_ch = "tr_c" -> "c"
      [] piece_ch = "tr_p" -> "p"

\* ChessParser.parse_piece_char; "" stands for the ValueError
parse_piece_char(piece_ch, color, strict_flag) ==
    IF strict_flag
    THEN IF color = "red"
         THEN (IF piece_ch \in RED_PIECES THEN GlyphPiece(piece_ch) ELSE "")
         ELSE (IF piece_ch \in BLACK_PIECES THEN GlyphPiece(piece_ch) ELSE "")
    ELSE IF piece_ch \in RED_PIECES \cup BLACK_PIECES
         THEN (IF color = "red" THEN Upper(GlyphPiece(piece_ch))
               ELSE Lower(GlyphPiece(piece_ch)))
         ELSE ""

\* a variant of parse_col_idx that does not mirror the index for side "down"
parse_col_idx_NoMirror(col_ch, color, side) ==
    IF color = "red"
    THEN IF col_ch \in CHINESE_IDX
         THEN [err |-> "", val |-> ChineseValue(col_ch) - 1]
         ELSE [err |-> "ValueError", val |-> 0]
    ELSE IF col_ch \in Digits /\ 0 <= DigitValue(col_ch) - 1 /\ DigitValue(col_ch) - 1 <= 8
         THEN [err |-> "", val |-> DigitValue(col_ch) - 1]
         ELSE [err |-> "ValueError", val |-> 0]

\* ChessParser.parse_col_idx
parse_col_idx(col_ch, color, side) ==
    LET mirror(col) == IF side = "down" THEN 8 - col ELSE col
    IN IF color = "red"
       THEN IF col_ch \in CHINESE_IDX
            THEN [err |-> "", val |-> mirror(ChineseValue(col_ch) - 1)]
            ELSE [err |-> "ValueError", val |-> 0]
       ELSE IF col_ch \in Digits /\ 0 <= DigitValue(col_ch) - 1 /\ DigitValue(col_ch) - 1 <= 8
            THEN [err |-> "", val |-> mirror(DigitValue(col_ch) - 1)]
            ELSE [err |-> "ValueError", val |-> 0]

\* a variant of parse_row_delta that does not negate the step for side "up"
parse_row_delta_NoSign(delta_ch, color, side) ==
    IF color = "red"
    THEN IF delta_ch \in CHINESE_IDX
         THEN [err |-> "", val |-> ChineseValue(delta_ch)]
         ELSE [err |-> "ValueError", val |-> 0]
    ELSE IF delta_ch \in Digits /\ 0 <= DigitValue(delta_ch) /\ DigitValue(delta_ch) <= 9
         THEN [err |-> "", val |-> DigitValue(delta_ch)]
         ELSE [err |-> "ValueError", val |-> 0]

\* ChessParser.parse_row_delta
parse_row_delta(delta_ch, color, side) ==
    LET sign(delta) == IF side = "up" THEN -delta ELSE delta
    IN IF color = "red"
       THEN IF delta_ch \in CHINESE_IDX
            THEN [err |-> "", val |-> sign(ChineseValue(delta_ch))]
            ELSE [err |-> "ValueError", val |-> 0]
       ELSE IF delta_ch \in Digits /\ 0 <= DigitValue(delta_ch) /\ DigitValue(delta_ch) <= 9
            THEN [err |-> "", val |-> sign(DigitValue(delta_ch))]
            ELSE [err |-> "ValueError", val |-> 0]

HARD_MODE_KEYWORDS == {"qian", "zhong", "hou"}

\* a variant of state_map[piece] that takes the pieces of either colour
StateMap_AnyColor(state, piece) ==
    LET hold == SelectSeq(state, LAMBDA e : Lower(e.piece) = Lower(piece))
    IN [i \in 1..Len(hold) |-> hold[i].pos]

\* state_map[piece] of parse_cmd: the positions holding piece, in the
\* order state.items() yields them
StateMap(state, piece) ==
    LET hold == SelectSeq(state, LAMBDA e : e.piece = piece)
    IN [i \in 1..Len(hold) |-> hold[i].pos]

\* a variant of the sort of parse_cmd that sorts by ascending row for either side
SortByRow_Ascending(positions, descending) ==
    LET n == Len(positions)
        before(i, j) == positions[i][2] < positions[j][2]
                        \/ (positions[i][2] = positions[j][2] /\ i < j)
        rank(i) == Cardinality({j \in 1..n : before(j, i)}) + 1
    IN [k \in 1..n |-> positions[CHOOSE i \in 1..n : rank(i) = k]]

\* list.sort(key=lambda x: -x[1]) / list.sort(key=lambda x: x[1]); the sort
\* is stable, so equal keys keep their order
SortByRow(positions, descending) ==
    LET n == Len(positions)
        key(i) == IF descending THEN -positions[i][2] ELSE positions[i][2]
        before(i, j) == key(i) < key(j) \/ (key(i) = key(j) /\ i < j)
        rank(i) == Cardinality({j \in 1..n : before(j, i)}) + 1
    IN [k \in 1..n |-> positions[CHOOSE i \in 1..n : rank(i) = k]]

\* parse_cmd, "Determine starting position"
ParseStart(state, cmd, piece, color, side) ==
    IF cmd[1] \notin HARD_MODE_KEYWORDS
    THEN LET held == StateMap(state, piece)
             col == parse_col_idx(cmd[2], color, side)
             hit == {i \in 1..Len(held) : held[i][1] = col.val}
         IN IF Len(held) = 0 THEN [err |-> "ValueError", pos |-> <<0, 0>>]
            ELSE IF col.err # "" THEN [err |-> col.err, pos |-> <<0, 0>>]
            ELSE IF hit = {} THEN [err |-> "ValueError", pos |-> <<0, 0>>]
            ELSE [err |-> "", pos |-> held[CHOOSE i \in hit : \A j \in hit : i <= j]]
    ELSE LET held == StateMap(state, piece)
             cols == {held[i][1] : i \in 1..Len(held)}
             positions == SortByRow(held, side = "down")
             n == Len(held)
         IN IF n = 0 THEN [err |-> "KeyError", pos |-> <<0, 0>>]
            ELSE IF Cardinality(cols) > 1 THEN [err |-> "ValueError", pos |-> <<0, 0>>]
            ELSE IF cmd[1] = "qian"
            THEN (IF n < 2 THEN [err |-> "ValueError", pos |-> <<0, 0>>]
                  ELSE [err |-> "", pos |-> positions[1]])
            ELSE IF cmd[1] = "hou"
            THEN (IF n < 2 THEN [err |-> "ValueError", pos |-> <<0, 0>>]
                  ELSE [err |-> "", pos |-> positions[n]])
            ELSE (IF n < 3 THEN [err |-> "ValueError", pos |-> <<0, 0>>]
                  ELSE [err |-> "", pos |-> positions[2]])

\* parse_cmd, "Determine ending position"
ParseEnd(start, piece, op_type, op_arg_ch, color, side) ==
    LET bad == [err |-> "ValueError", pos |-> <<0, 0>>]
        col == parse_col_idx(op_arg_ch, color, side)
        unit(ch_red, ch_black) ==
            parse_row_delta(IF color = "red" THEN ch_red ELSE ch_black, color, side)
        fixed(delta) ==
            IF col.err # "" THEN bad
            ELSE IF op_type = "jin"
            THEN [err |-> "", pos |-> <<col.val, start[2] + delta.val>>]
            ELSE IF op_type = "tui"
            THEN [err |-> "", pos |-> <<col.val, start[2] - delta.val>>]
            ELSE bad
    IN IF Lower(piece) \in {"k", "r", "c", "p"}
       THEN IF op_type = "ping"
            THEN (IF col.err # "" THEN bad
                  ELSE [err |-> "", pos |-> <<col.val, start[2]>>])
            ELSE IF op_type \in {"jin", "tui"}
            THEN LET delta == parse_row_delta(op_arg_ch, color, side)
                     end_row == IF op_type = "jin" THEN start[2] + delta.val
                                ELSE start[2] - delta.val
                 IN IF delta.err # "" THEN bad
                    ELSE IF ~(0 <= end_row /\ end_row <= 9) THEN bad
                    ELSE [err |-> "", pos |-> <<start[1], end_row>>]
            ELSE bad
       ELSE IF Lower(piece) \in {"a", "e"}
       THEN (IF Lower(piece) = "a" THEN fixed(unit("cn1", "1"))
             ELSE fixed(unit("cn2", "2")))
       ELSE IF col.err # "" THEN bad
            ELSE IF Abs(col.val - start[1]) = 1 THEN fixed(unit("cn2", "2"))
            ELSE IF Abs(col.val - start[1]) = 2 THEN fixed(unit("cn1", "1"))
            ELSE bad

\* an optional bool argument "rotate_flag: bool | None": None, or the bool
None == <<>>

Some(flag) == <<flag>>

\* "rotate_flag or get_rotate_flag()": None and False both give the
\* process-wide default
FlagOrDefault(rotate_flag, default) ==
    IF rotate_flag # None /\ rotate_flag[1] THEN TRUE ELSE default

\* ChessParser.parse_cmd; default is utils._rotate_flag_default
parse_cmd(state, cmd, rotate_flag, strict_flag, default) ==
    LET none == <<0, 0>>
        flag == FlagOrDefault(rotate_flag, default)
        color == detect_color(cmd)
        side == detect_side(color, flag)
        piece_ch == IF cmd[1] \in HARD_MODE_KEYWORDS THEN cmd[2] ELSE cmd[1]
        piece == parse_piece_char(piece_ch, color, strict_flag)
        from == ParseStart(state, cmd, piece, color, side)
        to == ParseEnd(from.pos, piece, cmd[3], cmd[4], color, side)
    IN IF Len(cmd) < 4 THEN [err |-> "IndexError", start |-> none, end |-> none]
       ELSE IF color = "" THEN [err |-> "ValueError", start |-> none, end |-> none]
       ELSE IF piece = "" THEN [err |-> "ValueError", start |-> none, end |-> none]
       ELSE IF from.err # "" THEN [err |-> from.err, start |-> none, end |-> none]
       ELSE IF to.err # "" THEN [err |-> to.err, start |-> none, end |-> none]
       ELSE [err |-> "", start |-> from.pos, end |-> to.pos]

\* normalize_cmds works on characters.  Beside the glyphs of a command a
\* text holds " " (whitespace), "." , "," , ";" , ":" and the full-width
\* "fw_comma", "fw_semi", "fw_colon" and the ideographic comma "dun".
\* \w of the regular expressions: every glyph of a command is a word
\* character (Unicode letters and digits); punctuation and space are not.
IsWordChar(ch) == ch \notin {" ", ".", ",", ";", ":", "fw_comma", "fw_semi", "fw_colon", "dun"}

\* the separator class [\s,fw_comma dun;fw_semi] of re.split
IsSeparator(ch) == ch \in {" ", ",", "fw_comma", "dun", ";", "fw_semi"}

\* re.sub(r"\b\d+(\.{1,3}|[dun : fw_colon])?", " ", text), read from
\* character i on: a digit run that starts at a word boundary, with up to
\* three dots or one of dun : fw_colon after it, becomes one space
RECURSIVE StripTurnNumbers(_, _)
StripTurnNumbers(text, i) ==
    IF i > Len(text) THEN <<>>
    ELSE IF text[i] \in Digits /\ (i = 1 \/ ~IsWordChar(text[i - 1]))
    THEN LET run == CHOOSE j \in i..Len(text) :
                      /\ \A m \in i..j : text[m] \in Digits
                      /\ (j = Len(text) \/ text[j + 1] \notin Digits)
             dots == CHOOSE d \in 0..3 :
                      /\ \A m \in 1..d : run + m <= Len(text) /\ text[run + m] = "."
                      /\ (d = 3 \/ run + d + 1 > Len(text) \/ text[run + d + 1] # ".")
             tail == IF dots > 0 THEN dots
                     ELSE IF run + 1 <= Len(text) /\ text[run + 1] \in {"dun", ":", "fw_colon"}
                     THEN 1 ELSE 0
         IN <<" ">> \o StripTurnNumbers(text, run + tail + 1)
    ELSE <<text[i]>> \o StripTurnNumbers(text, i + 1)

\* re.split on the separator class, then "p.strip() for p in parts if
\* p.strip()": the maximal runs of characters that are no separators
RECURSIVE SplitCmds(_, _, _)
SplitCmds(text, i, cur) ==
    IF i > Len(text) THEN (IF cur = <<>> THEN <<>> ELSE <<cur>>)
    ELSE IF IsSeparator(text[i])
    THEN (IF cur = <<>> THEN <<>> ELSE <<cur>>) \o SplitCmds(text, i + 1, <<>>)
    ELSE SplitCmds(text, i + 1, Append(cur, text[i]))

\* a variant of the loop that never raises
Alternates_Always(cmds, i, expected) == TRUE
\* the loop of normalize_cmds over cmds[i..], expected being expected_color
RECURSIVE Alternates(_, _, _)
Alternates(cmds, i, expected) ==
    IF i > Len(cmds) THEN TRUE
    ELSE IF detect_color(cmds[i]) # expected THEN FALSE
    ELSE Alternates(cmds, i + 1, IF expected = "black" THEN "red" ELSE "black")

\* the pass of the loop of normalize_cmds over cmds[i..] in which it raises
\* (detect_color fails, or the colour is not the expected one)
RECURSIVE FirstBad(_, _, _)
FirstBad(cmds, i, expected) ==
    IF detect_color(cmds[i]) # expected THEN i
    ELSE FirstBad(cmds, i + 1, IF expected = "black" THEN "red" ELSE "black")

\* ChessParser.normalize_cmds; at is the index of the command named in the
\* ValueError (0 when it returns)
normalize_cmds(text) ==
    LET cmds == SplitCmds(StripTurnNumbers(text, 1), 1, <<>>)
    IN IF cmds = <<>> THEN [err |-> "", cmds |-> <<>>, at |-> 0]
       ELSE IF detect_color(cmds[1]) = ""
       THEN [err |-> "ValueError", cmds |-> <<>>, at |-> 1]
       ELSE IF ~Alternates(cmds, 1, detect_color(cmds[1]))
       THEN [err |-> "ValueError", cmds |-> <<>>,
             at |-> FirstBad(cmds, 1, detect_color(cmds[1]))]
       ELSE [err |-> "", cmds |-> cmds, at |-> 0]

\* ------------------------------------------------------------ ChessRecorder
\* A recorder: [hid, history, rotate_flag, cpid, checkpoints]; hid and cpid
\* are the identities of the deque and of the checkpoint dict.
\* A node: [state, sid, trace, extra_info, iid]; sid and iid are the
\* identities of the ChessState and of the extra_info dict.
\* extra_info is [color, desc]: "" is a missing "color" key (what
\* extra_info.get("color", "") gives) and <<>> a missing "desc" key.
\* recs maps the live recorders (by name) to their contents.

\* trace None
NoTrace == <<>>

\* the dict {}
EmptyInfo == [color |-> "", desc |-> <<>>]

\* the dict {}
EmptyCheckpoints == [n \in {} |-> 0]

\* the identities of the objects the live recorders hold
UsedIds(rs) ==
    UNION {{rs[r].hid, rs[r].cpid}
             \cup {rs[r].history[i].sid : i \in 1..Len(rs[r].history)}
             \cup {rs[r].history[i].iid : i \in 1..Len(rs[r].history)} : r \in DOMAIN rs}

\* An identity is <<owner, n>>: the name of the recorder the object was made
\* for, and a number.  NthFree is the k-th identity of that owner that no
\* object of "used" has.
NthFree(used, owner, k) ==
    LET taken == {id[2] : id \in {u \in used : u[1] = owner}}
        cand == (1..(Cardinality(taken) + k)) \ taken
    IN <<owner, CHOOSE x \in cand : Cardinality({y \in cand : y < x}) = k - 1>>

\* ChessNode.__init__: the state is deep-copied (sid is a fresh identity);
\* "extra_info or {}" keeps the caller's dict unless it is None or empty,
\* and then makes a new one (fresh_iid).  has_info is "extra_info is not None".
ChessNode(state, sid, trace, has_info, extra_info, iid, fresh_iid) ==
    IF has_info /\ extra_info # EmptyInfo
    THEN [state |-> state, sid |-> sid, trace |-> trace,
          extra_info |-> extra_info, iid |-> iid]
    ELSE [state |-> state, sid |-> sid, trace |-> trace,
          extra_info |-> EmptyInfo, iid |-> fresh_iid]

\* deque.append on the deque hid, seen by every recorder that holds it
DequeAppend(rs, hid, node) ==
    [r \in DOMAIN rs |->
        IF rs[r].hid = hid THEN [rs[r] EXCEPT !.history = Append(@, node)] ELSE rs[r]]

\* a variant of ChessNodeDeque.pop that also pops the last node left
DequePop_PopsRoot(rs, hid) ==
    [r \in DOMAIN rs |->
        IF rs[r].hid = hid /\ Len(rs[r].history) > 0
        THEN [rs[r] EXCEPT !.history = SubSeq(@, 1, Len(@) - 1)]
        ELSE rs[r]]

\* ChessNodeDeque.pop on the deque hid
DequePop(rs, hid) ==
    [r \in DOMAIN rs |->
        IF rs[r].hid = hid /\ Len(rs[r].history) > 1
        THEN [rs[r] EXCEPT !.history = SubSeq(@, 1, Len(@) - 1)]
        ELSE rs[r]]

\* ChessRecorder.__init__ with a state given: the recorder made of the
\* fresh objects hid, sid, iid, cpid
NewRecorder(state, rotate_flag, default, hid, sid, iid, cpid) ==
    [hid |-> hid,
     history |-> <<ChessNode(state, sid, NoTrace, FALSE, EmptyInfo, iid, iid)>>,
     rotate_flag |-> FlagOrDefault(rotate_flag, default),
     cpid |-> cpid,
     checkpoints |-> EmptyCheckpoints]

\* the last node, self._history._queue[-1]
LastNode(rec) == rec.history[Len(rec.history)]

\* a variant of "check color" that never raises
SameColorAsPrevious_Never(pre_color, color) == FALSE

\* "check color" of ChessRecorder.move: TRUE when the ValueError is raised
SameColorAsPrevious(pre_color, color) == pre_color = color

\* ChessRecorder.move
move(rs, r, start, end, desc) ==
    LET rec == rs[r]
        cur == LastNode(rec)
        reason == check_move(cur.state, start, end, rec.rotate_flag)
        color == IF IsUpper(GetItem(cur.state, start)) THEN "red" ELSE "black"
        moved == StateMove(cur.state, start, end)
        used == UsedIds(rs)
        node == ChessNode(moved.state, NthFree(used, r, 1), <<start, end>>, TRUE,
                          [color |-> color, desc |-> desc], NthFree(used, r, 2),
                          NthFree(used, r, 3))
    IN IF reason # ""
       THEN [err |-> "ValueError", msg |-> "Invalid move detected", recs |-> rs]
       ELSE IF SameColorAsPrevious(cur.extra_info.color, color)
       THEN [err |-> "ValueError",
             msg |-> "The color of the current player is the same as the previous player.",
             recs |-> rs]
       ELSE IF moved.err # ""
       THEN [err |-> moved.err, msg |-> "Invalid key", recs |-> rs]
       ELSE [err |-> "", msg |-> "", recs |-> DequeAppend(rs, rec.hid, node)]

\* a variant of filter(None, cmds) that keeps the first command only
NonEmpty_FirstOnly(cmds) ==
    LET kept == SelectSeq(cmds, LAMBDA c : c # <<>>)
    IN SubSeq(kept, 1, Min(1, Len(kept)))

\* filter(None, cmds): the empty commands are skipped
NonEmpty(cmds) == SelectSeq(cmds, LAMBDA c : c # <<>>)

\* the loop of ChessRecorder.exec from command i on; done counts the
\* commands committed
RECURSIVE ExecLoop(_, _, _, _, _, _)
ExecLoop(rs, r, cmds, i, strict_flag, default) ==
    IF i > Len(cmds) THEN [err |-> "", msg |-> "", recs |-> rs, done |-> i - 1]
    ELSE LET Commit(moved) ==
                 IF moved.err # ""
                 THEN [err |-> moved.err, msg |-> moved.msg, recs |-> rs, done |-> i - 1]
                 ELSE ExecLoop(moved.recs, r, cmds, i + 1, strict_flag, default)
             Step(parsed) ==
                 IF parsed.err = "ValueError"
                 THEN [err |-> "ValueError", msg |-> "Invalid cmd detected",
                       recs |-> rs, done |-> i - 1]
                 ELSE IF parsed.err # ""
                 THEN [err |-> parsed.err, msg |-> "", recs |-> rs, done |-> i - 1]
                 ELSE CHOOSE out \in {Commit(m) : m \in
                        {move(rs, r, parsed.start, parsed.end, cmds[i])}} : TRUE
         IN CHOOSE out \in {Step(p) : p \in
              {parse_cmd(LastNode(rs[r]).state, cmds[i], Some(rs[r].rotate_flag),
                         strict_flag, default)}} : TRUE

\* ChessRecorder.exec; input is [kind, val]: a str (its characters), a
\* list or tuple of commands, or a value of another type
exec(rs, r, input, strict_flag, default) ==
    IF input.kind = "str"
    THEN CHOOSE out \in
           {IF norm.err # ""
            THEN [err |-> norm.err, msg |-> "normalize", recs |-> rs, done |-> 0]
            ELSE ExecLoop(rs, r, NonEmpty(norm.cmds), 1, strict_flag, default) :
              norm \in {normalize_cmds(input.val)}} : TRUE
    ELSE IF input.kind = "list"
    THEN ExecLoop(rs, r, NonEmpty(input.val), 1, strict_flag, default)
    ELSE [err |-> "TypeError", msg |-> "Unsupported cmds type", recs |-> rs, done |-> 0]

\* a variant of set_checkpoint that records len(self._history) + 1
set_checkpoint_OneMore(rs, r, name) ==
    LET length == Len(rs[r].history) + 1
    IN [q \in DOMAIN rs |->
          IF rs[q].cpid = rs[r].cpid
          THEN [rs[q] EXCEPT !.checkpoints =
                  [n \in (DOMAIN @) \cup {name} |-> IF n = name THEN length ELSE @[n]]]
          ELSE rs[q]]

\* ChessRecorder.set_checkpoint: self._checkpoints[name] = len(self._history),
\* seen by every recorder that holds the dict
set_checkpoint(rs, r, name) ==
    LET length == Len(rs[r].history)
    IN [q \in DOMAIN rs |->
          IF rs[q].cpid = rs[r].cpid
          THEN [rs[q] EXCEPT !.checkpoints =
                  [n \in (DOMAIN @) \cup {name} |-> IF n = name THEN length ELSE @[n]]]
          ELSE rs[q]]

\* "while len(self._history) > target_len: self._history.pop()"; the loop
\* does not end when pop no longer shortens the history
RECURSIVE PopWhileLonger(_, _, _)
PopWhileLonger(rs, r, target_len) ==
    IF Len(rs[r].history) > target_len
    THEN LET popped == DequePop(rs, rs[r].hid)
         IN IF popped = rs THEN [err |-> "NoReturn", recs |-> rs]
            ELSE PopWhileLonger(popped, r, target_len)
    ELSE [err |-> "", recs |-> rs]

\* a variant of rollback_to_checkpoint that stops one node short
rollback_to_checkpoint_OneShort(rs, r, name) ==
    IF name \notin DOMAIN rs[r].checkpoints THEN [err |-> "KeyError", recs |-> rs]
    ELSE PopWhileLonger(rs, r, rs[r].checkpoints[name] + 1)

\* ChessRecorder.rollback_to_checkpoint
rollback_to_checkpoint(rs, r, name) ==
    IF name \notin DOMAIN rs[r].checkpoints THEN [err |-> "KeyError", recs |-> rs]
    ELSE PopWhileLonger(rs, r, rs[r].checkpoints[name])

\* "for _ in range(steps): self._history.pop()"
RECURSIVE PopTimes(_, _, _)
PopTimes(rs, r, steps) ==
    IF steps <= 0 THEN rs ELSE PopTimes(DequePop(rs, rs[r].hid), r, steps - 1)

\* a variant of rollback that also drops the checkpoints recorded above the
\* new length
rollback_DropsCheckpoints(rs, r, steps) ==
    IF steps < 0 THEN [err |-> "ValueError", recs |-> rs]
    ELSE LET popped == PopTimes(rs, r, steps)
             kept == {n \in DOMAIN rs[r].checkpoints :
                         rs[r].checkpoints[n] <= Len(popped[r].history)}
         IN [err |-> "",
             recs |-> [popped EXCEPT ![r].checkpoints = [n \in kept |-> rs[r].checkpoints[n]]]]

\* a variant of rollback that pops one node whatever steps is
rollback_PopsOne(rs, r, steps) ==
    IF steps < 0 THEN [err |-> "ValueError", recs |-> rs]
    ELSE [err |-> "", recs |-> PopTimes(rs, r, 1)]

\* ChessRecorder.rollback
rollback(rs, r, steps) ==
    IF steps < 0 THEN [err |-> "ValueError", recs |-> rs]
    ELSE [err |-> "", recs |-> PopTimes(rs, r, steps)]

\* ChessNodeDeque.deepcopy: node i of the new deque is ChessNode(node.state,
\* node.trace, node.extra_info); the fresh identities (two per node: the
\* state copy and, if needed, a new dict) are those of owner from base on
DequeCopy(history, used, owner, base) ==
    [i \in 1..Len(history) |->
        ChessNode(history[i].state, NthFree(used, owner, base + 2 * i - 1),
                  history[i].trace, TRUE, history[i].extra_info, history[i].iid,
                  NthFree(used, owner, base + 2 * i))]

\* ChessRecorder.deepcopy: the recorder returned, to be held as "new"
deepcopy(rs, r, new, default) ==
    LET used == UsedIds(rs)
        new_rec == NewRecorder(rs[r].history[1].state, Some(rs[r].rotate_flag), default,
                               NthFree(used, new, 1), NthFree(used, new, 2),
                               NthFree(used, new, 3), NthFree(used, new, 4))
    IN [new_rec EXCEPT !.history = DequeCopy(rs[r].history, used, new, 4),
                       !.checkpoints = rs[r].checkpoints]

\* a variant of last that returns the state object of the last node itself
last_NoCopy(rs, r, fresh) ==
    [state |-> LastNode(rs[r]).state, sid |-> LastNode(rs[r]).sid]

\* ChessRecorder.last: self._history._queue[-1].state.deepcopy(), a new
\* ChessState object (identity fresh) with the pieces of the last state
last(rs, r, fresh) ==
    [state |-> LastNode(rs[r]).state, sid |-> fresh]

\* a write into the ChessState object sid (self._pieces[key] = value, del
\* self._pieces[key]) that leaves it holding state: every node whose state
\* is that object holds state from then on
StateWrite(rs, sid, state) ==
    [r \in DOMAIN rs |->
        LET history == rs[r].history
        IN [rs[r] EXCEPT !.history =
              [i \in 1..Len(history) |->
                 IF history[i].sid = sid THEN [history[i] EXCEPT !.state = state]
                 ELSE history[i]]]]

\* a variant of derive that starts from the root state, not from the last
derive_FromRoot(rs, r, new, default) ==
    LET used == UsedIds(rs)
    IN NewRecorder(rs[r].history[1].state, Some(rs[r].rotate_flag), default,
                   NthFree(used, new, 1), NthFree(used, new, 2),
                   NthFree(used, new, 3), NthFree(used, new, 4))

\* ChessRecorder.derive: ChessRecorder(self.last(), self._rotate_flag), to be
\* held as "new"
derive(rs, r, new, default) ==
    LET used == UsedIds(rs)
    IN NewRecorder(LastNode(rs[r]).state, Some(rs[r].rotate_flag), default,
                   NthFree(used, new, 1), NthFree(used, new, 2),
                   NthFree(used, new, 3), NthFree(used, new, 4))

\* ChessRecorder.rotate: the recorder's own flag is toggled
rotate(rs, r) == [rs EXCEPT ![r].rotate_flag = ~@]

\* the loop of dryrun from command i on: every command is parsed against
\* self.last() with the caller's rotate_flag and strict_flag; the first
\* parse that raises ends the call
RECURSIVE DryrunLoop(_, _, _, _, _, _, _)
DryrunLoop(state, cmds, i, rotate_flag, strict_flag, default, arrows) ==
    IF i > Len(cmds) THEN [err |-> "", arrows |-> arrows]
    ELSE LET Step(parsed) ==
                 IF parsed.err # "" THEN [err |-> parsed.err, arrows |-> <<>>]
                 ELSE DryrunLoop(state, cmds, i + 1, rotate_flag, strict_flag, default,
                                 Append(arrows, <<parsed.start, parsed.end>>))
         IN CHOOSE out \in {Step(p) : p \in
              {parse_cmd(state, cmds[i], rotate_flag, strict_flag, default)}} : TRUE

\* ChessRecorder.dryrun(cmds, rotate_flag, strict_flag): the arrows given to
\* draw, one (start, end) per command; the recorder is left as it is
dryrun(rs, r, cmds, rotate_flag, strict_flag, default) ==
    DryrunLoop(LastNode(rs[r]).state, cmds, 1, rotate_flag, strict_flag, default, <<>>)

\* ------------------------------------------------------------ state machine
VARIABLES
    recs,            \* the live recorders: name -> recorder
    rotate_default,  \* utils._rotate_flag_default
    ret,             \* the last call: operation, recorder, argument, outcome
    snap,            \* an observer, kept under Spec: per recorder and checkpoint
                     \* name, the length and last state when set_checkpoint was
                     \* last called, and what has changed the history since
    board,           \* a ChessState the program holds outside any recorder
    bid              \* the identity of that ChessState object

vars == <<recs, rotate_default, ret, snap, board, bid>>

\* the identity of the first ChessState the program makes; the identities of
\* its objects are <<0, n>>, those of the objects of recorder r are <<r, n>>
FirstBoardId == <<0, 1>>

\* a ChessState filled by state[pos] = piece in the order given
RECURSIVE FillState(_, _)
FillState(entries, i) ==
    IF i = 0 THEN <<>>
    ELSE DictSet(FillState(entries, i - 1), <<entries[i][1], entries[i][2]>>, entries[i][3])

\* the board the recorder is constructed on
InitBoard ==
    FillState(<<<<0, 0, "R">>, <<1, 0, "H">>, <<0, 3, "P">>, <<0, 4, "p">>,
                <<0, 9, "r">>, <<1, 9, "h">>>>, 6)

\* the (start, end) pairs given to move
MoveInputs ==
    {<<<<0, 0>>, <<0, 1>>>>,    \* rook, one step
     <<<<0, 0>>, <<1, 1>>>>,    \* rook, not straight
     <<<<0, 0>>, <<0, 3>>>>,    \* rook onto its own pawn
     <<<<0, 1>>, <<0, 2>>>>,    \* rook again
     <<<<0, 3>>, <<0, 4>>>>,    \* red pawn takes the black pawn
     <<<<0, 4>>, <<0, 3>>>>,    \* black pawn takes the red pawn
     <<<<0, 9>>, <<0, 8>>>>,    \* black rook, one step
     <<<<0, 9>>, <<0, 10>>>>,   \* black rook, off the board
     <<<<1, 9>>, <<2, 7>>>>,    \* black horse
     <<<<5, 5>>, <<5, 6>>>>}    \* no piece at start

\* the (start, end) pairs given to move when two recorders are explored:
\* the red rook, twice; the black rook moves by exec
MoveInputsCopy ==
    {<<<<0, 0>>, <<0, 1>>>>, <<<<0, 1>>, <<0, 2>>>>}

CmdRookAdvance == <<"zh_R", "cn9", "jin", "cn1">>

CmdRookOntoPawn == <<"zh_R", "cn9", "jin", "cn3">>

CmdBlackRookAdvance == <<"tr_r", "1", "jin", "1">>

CmdCannon == <<"zh_C", "cn2", "ping", "cn5">>

\* the arguments given to exec
ExecInputs ==
    {[kind |-> "list", val |-> <<CmdRookAdvance, CmdBlackRookAdvance>>],
     [kind |-> "list", val |-> <<CmdRookAdvance, <<>>, CmdRookOntoPawn>>],
     [kind |-> "list", val |-> <<CmdBlackRookAdvance, CmdCannon>>],
     [kind |-> "list", val |-> <<CmdBlackRookAdvance, <<"zh_R">>>>],
     [kind |-> "str",
      val |-> <<"1", ".", " ">> \o CmdRookAdvance \o <<" ">> \o CmdBlackRookAdvance],
     [kind |-> "str", val |-> CmdBlackRookAdvance \o <<"fw_comma">> \o CmdRookOntoPawn],
     [kind |-> "str", val |-> CmdRookAdvance \o <<",">> \o CmdRookOntoPawn],
     [kind |-> "set", val |-> <<>>]}

\* the arguments given to exec when two recorders are explored
ExecInputsCopy == {[kind |-> "list", val |-> <<CmdBlackRookAdvance>>]}

\* the checkpoint names given to set_checkpoint
SetNames == {"a"}

\* the checkpoint names given to rollback_to_checkpoint
LookupNames == {"a", "xxx"}

\* the names of the recorders a program holds
RecNames == {1, 2}

NoSnap == [n \in {} |-> 0]

\* the commands exec will run, for the bound on the history length
CmdCount(input) ==
    IF input.kind = "list" THEN Len(NonEmpty(input.val))
    ELSE IF input.kind = "str" THEN Len(normalize_cmds(input.val).cmds)
    ELSE 0

\* the record of a call: len is len(self._history) when it was made, done
\* the number of commands an exec committed
Call(op, r, arg, res) ==
    [op |-> op, rid |-> r, arg |-> arg, len |-> Len(recs[r].history),
     err |-> res.err, msg |-> res.msg, done |-> res.done]

\* rec = ChessRecorder(InitBoard, rotate_flag), under either default flag
Init ==
    /\ rotate_default \in BOOLEAN
    /\ \E rotate_flag \in {None, Some(FALSE), Some(TRUE)} :
          recs = (1 :> NewRecorder(InitBoard, rotate_flag, rotate_default,
                                   <<1, 1>>, <<1, 2>>, <<1, 3>>, <<1, 4>>))
    /\ ret = Call("init", 1, <<>>, [err |-> "", msg |-> "", done |-> 0])
    /\ snap = (1 :> NoSnap)
    /\ bid = FirstBoardId
    /\ board = <<>>

\* rec.move(start, end)
Move(r, start, end, max_len) ==
    /\ Len(recs[r].history) < max_len
    /\ \E res \in {move(recs, r, start, end, <<>>)} :
          /\ recs' = res.recs
          /\ ret' = Call("move", r, <<start, end>>,
                         [err |-> res.err, msg |-> res.msg, done |-> 0])
    /\ UNCHANGED <<rotate_default, board, bid>>

\* rec.exec(cmds, strict_flag)
Exec(r, input, strict_flag, max_len) ==
    /\ Len(recs[r].history) + CmdCount(input) <= max_len
    /\ \E res \in {exec(recs, r, input, strict_flag, rotate_default)} :
          /\ recs' = res.recs
          /\ ret' = Call("exec", r, <<input, strict_flag>>, res)
    /\ UNCHANGED <<rotate_default, board, bid>>

\* rec.set_checkpoint(name)
SetCheckpoint(r, name) ==
    /\ recs' = set_checkpoint(recs, r, name)
    /\ ret' = Call("set_checkpoint", r, name, [err |-> "", msg |-> "", done |-> 0])
    /\ UNCHANGED <<rotate_default, board, bid>>

\* rec.rollback_to_checkpoint(name)
RollbackToCheckpoint(r, name) ==
    /\ \E res \in {rollback_to_checkpoint(recs, r, name)} :
          /\ recs' = res.recs
          /\ ret' = Call("rollback_to_checkpoint", r, name,
                         [err |-> res.err, msg |-> "", done |-> 0])
    /\ UNCHANGED <<rotate_default, board, bid>>

\* rec.rollback(steps)
Rollback(r, steps) ==
    /\ \E res \in {rollback(recs, r, steps)} :
          /\ recs' = res.recs
          /\ ret' = Call("rollback", r, steps, [err |-> res.err, msg |-> "", done |-> 0])
    /\ UNCHANGED <<rotate_default, board, bid>>

\* new = rec.deepcopy(); the new recorder is held under the name "new"
Deepcopy(r, new) ==
    /\ new \notin DOMAIN recs
    /\ recs' = recs @@ (new :> deepcopy(recs, r, new, rotate_default))
    /\ ret' = Call("deepcopy", r, new, [err |-> "", msg |-> "", done |-> 0])
    /\ UNCHANGED <<rotate_default, board, bid>>

\* new = rec.derive()
Derive(r, new) ==
    /\ new \notin DOMAIN recs
    /\ recs' = recs @@ (new :> derive(recs, r, new, rotate_default))
    /\ ret' = Call("derive", r, new, [err |-> "", msg |-> "", done |-> 0])
    /\ UNCHANGED <<rotate_default, board, bid>>

\* The observer of the call just made (ret'): set_checkpoint(name) records
\* the length and the last state under name, with since = "moves"; move and
\* exec leave the observer alone; a rollback_to_checkpoint(name) that pops
\* nodes while since = "moves" makes it "restored"; any other call that
\* changes the history by popping makes it "other".
Observe ==
    snap' = [q \in DOMAIN snap |->
               IF ret'.op = "set_checkpoint" /\ ret'.rid = q
               THEN [n \in (DOMAIN snap[q]) \cup {ret'.arg} |->
                       IF n = ret'.arg
                       THEN [len |-> Len(recs[q].history),
                             state |-> LastNode(recs[q]).state, since |-> "moves"]
                       ELSE snap[q][n]]
               ELSE IF /\ ret'.op \in {"rollback", "rollback_to_checkpoint"}
                       /\ recs'[q].history # recs[q].history
               THEN [n \in DOMAIN snap[q] |->
                       IF /\ ret'.op = "rollback_to_checkpoint"
                          /\ ret'.arg = n
                          /\ snap[q][n].since = "moves"
                       THEN [snap[q][n] EXCEPT !.since = "restored"]
                       ELSE [snap[q][n] EXCEPT !.since = "other"]]
               ELSE snap[q]]

\* ---- one recorder: move, exec, checkpoints and rollbacks
MoveStep ==
    /\ \E r \in DOMAIN recs, m \in MoveInputs : Move(r, m[1], m[2], MaxHist)
    /\ Observe

ExecStep ==
    /\ \E r \in DOMAIN recs, input \in ExecInputs, strict_flag \in BOOLEAN :
          Exec(r, input, strict_flag, MaxHist)
    /\ Observe

SetCheckpointStep ==
    /\ \E r \in DOMAIN recs, name \in SetNames : SetCheckpoint(r, name)
    /\ Observe

RollbackToCheckpointStep ==
    /\ \E r \in DOMAIN recs, name \in LookupNames : RollbackToCheckpoint(r, name)
    /\ Observe

RollbackStep ==
    /\ \E r \in DOMAIN recs, steps \in (-1)..MaxSteps : Rollback(r, steps)
    /\ Observe

Next ==
    \/ MoveStep
    \/ ExecStep
    \/ SetCheckpointStep
    \/ RollbackToCheckpointStep
    \/ RollbackStep

Spec == Init /\ [][Next]_vars

\* ---- two recorders: the same operations on either, and deepcopy and derive
MoveCopyStep ==
    /\ \E r \in DOMAIN recs, m \in MoveInputsCopy : Move(r, m[1], m[2], MaxHistCopy)
    /\ UNCHANGED snap

ExecCopyStep ==
    /\ \E r \in DOMAIN recs, input \in ExecInputsCopy : Exec(r, input, FALSE, MaxHistCopy)
    /\ UNCHANGED snap

SetCheckpointCopyStep ==
    /\ \E r \in DOMAIN recs, name \in SetNames : SetCheckpoint(r, name)
    /\ UNCHANGED snap

RollbackToCheckpointCopyStep ==
    /\ \E r \in DOMAIN recs, name \in SetNames : RollbackToCheckpoint(r, name)
    /\ UNCHANGED snap

RollbackCopyStep ==
    /\ \E r \in DOMAIN recs : Rollback(r, 1)
    /\ UNCHANGED snap

DeepcopyStep ==
    /\ \E r \in DOMAIN recs, new \in RecNames : Deepcopy(r, new)
    /\ UNCHANGED snap

DeriveStep ==
    /\ \E r \in DOMAIN recs, new \in RecNames : Derive(r, new)
    /\ UNCHANGED snap

NextCopy ==
    \/ MoveCopyStep
    \/ ExecCopyStep
    \/ SetCheckpointCopyStep
    \/ RollbackToCheckpointCopyStep
    \/ RollbackCopyStep
    \/ DeepcopyStep
    \/ DeriveStep

\* rec = ChessRecorder(InitBoard) while the default flag is False
InitCopy == Init /\ ~rotate_default /\ ~recs[1].rotate_flag

SpecCopy == InitCopy /\ [][NextCopy]_vars

\* ---- parse_cmd and check_move as functions of a board, a command and flags
\* a second board: two red rooks in one column, and an advisor
ParseBoard ==
    FillState(<<<<0, 0, "R">>, <<0, 2, "R">>, <<3, 0, "A">>, <<0, 4, "p">>,
                <<0, 9, "r">>, <<1, 9, "h">>>>, 6)

CmdHorse == <<"zh_H", "cn8", "jin", "cn7">>

CmdFrontRook == <<"qian", "zh_R", "jin", "cn1">>

CmdBlackRookStay == <<"tr_r", "1", "jin", "0">>

CmdAdvisorRetreat == <<"zh_A", "cn6", "tui", "cn5">>

\* read with the rotation flag set: the red rook of column 0 moves up a row
CmdRookRetreat == <<"zh_R", "cn1", "tui", "cn1">>

\* the commands given to parse_cmd
ParseCmds ==
    {CmdRookAdvance, CmdRookOntoPawn, CmdBlackRookAdvance, CmdCannon, CmdHorse,
     CmdFrontRook, CmdBlackRookStay, CmdAdvisorRetreat, CmdRookRetreat}

\* the board is that of a recorder made on InitBoard or on ParseBoard
InitParse ==
    /\ rotate_default \in BOOLEAN
    /\ \E state \in {InitBoard, ParseBoard} :
          recs = (1 :> NewRecorder(state, None, rotate_default,
                                   <<1, 1>>, <<1, 2>>, <<1, 3>>, <<1, 4>>))
    /\ ret = Call("init", 1, <<>>, [err |-> "", msg |-> "", done |-> 0])
    /\ snap = (1 :> NoSnap)
    /\ bid = FirstBoardId
    /\ board = <<>>

\* ChessParser.parse_cmd(state, cmd, rotate_flag, strict_flag) on the last
\* state of recorder r
ParseCmd(r, cmd, rotate_flag, strict_flag) ==
    /\ \E res \in {parse_cmd(LastNode(recs[r]).state, cmd, rotate_flag, strict_flag,
                             rotate_default)} :
          ret' = [op |-> "parse_cmd", rid |-> r, arg |-> <<cmd, rotate_flag, strict_flag>>,
                  err |-> res.err, start |-> res.start, end |-> res.end]
    /\ UNCHANGED <<recs, rotate_default, snap, board, bid>>

\* ChessChecker.check_move on the same state with the pair parse_cmd has just
\* returned and the same flag (the process-wide default when it was None)
CheckParsed(r) ==
    /\ ret.op = "parse_cmd"
    /\ ret.rid = r
    /\ ret.err = ""
    /\ \E flag \in {IF ret.arg[2] = None THEN rotate_default ELSE ret.arg[2][1]} :
          ret' = [op |-> "check_move", rid |-> r, arg |-> <<ret.start, ret.end, flag>>,
                  cmd |-> ret.arg[1],
                  msg |-> check_move(LastNode(recs[r]).state, ret.start, ret.end, flag)]
    /\ UNCHANGED <<recs, rotate_default, snap, board, bid>>

ParseCmdStep ==
    \E r \in DOMAIN recs, cmd \in ParseCmds,
       rotate_flag \in {None, Some(FALSE), Some(TRUE)}, strict_flag \in BOOLEAN :
        ParseCmd(r, cmd, rotate_flag, strict_flag)

CheckParsedStep == \E r \in DOMAIN recs : CheckParsed(r)

NextParse ==
    \/ ParseCmdStep
    \/ CheckParsedStep

SpecParse == InitParse /\ [][NextParse]_vars

\* ---- the rotation flags: rotate, set_rotate_flag, exec and dryrun
\* rec.rotate()
Rotate(r) ==
    /\ recs' = rotate(recs, r)
    /\ ret' = Call("rotate", r, <<>>, [err |-> "", msg |-> "", done |-> 0])
    /\ UNCHANGED <<rotate_default, board, bid>>

\* utils.set_rotate_flag(flag)
SetRotateFlag(flag) ==
    /\ rotate_default' = flag
    /\ ret' = Call("set_rotate_flag", 1, flag, [err |-> "", msg |-> "", done |-> 0])
    /\ UNCHANGED <<recs, board, bid>>

\* rec.dryrun(cmds, rotate_flag=rotate_flag, strict_flag=strict_flag)
Dryrun(r, cmds, rotate_flag, strict_flag) ==
    /\ \E res \in {dryrun(recs, r, cmds, rotate_flag, strict_flag, rotate_default)} :
          ret' = Call("dryrun", r, <<cmds, rotate_flag, strict_flag>>,
                      [err |-> res.err, msg |-> "", done |-> 0])
                 @@ [arrows |-> res.arrows]
    /\ UNCHANGED <<recs, rotate_default, board, bid>>

\* the command lists given to exec and to dryrun
FlagCmds ==
    {<<CmdRookAdvance>>, <<CmdRookRetreat>>, <<CmdBlackRookAdvance>>,
     <<CmdRookAdvance, CmdBlackRookAdvance>>}

RotateStep ==
    /\ \E r \in DOMAIN recs : Rotate(r)
    /\ UNCHANGED snap

SetRotateFlagStep ==
    /\ \E flag \in BOOLEAN : SetRotateFlag(flag)
    /\ UNCHANGED snap

ExecFlagStep ==
    /\ \E r \in DOMAIN recs, cmds \in FlagCmds, strict_flag \in BOOLEAN :
          Exec(r, [kind |-> "list", val |-> cmds], strict_flag, MaxHist)
    /\ UNCHANGED snap

DryrunStep ==
    /\ \E r \in DOMAIN recs, cmds \in FlagCmds,
          rotate_flag \in {None, Some(FALSE), Some(TRUE)}, strict_flag \in BOOLEAN :
          Dryrun(r, cmds, rotate_flag, strict_flag)
    /\ UNCHANGED snap

NextFlag ==
    \/ RotateStep
    \/ SetRotateFlagStep
    \/ ExecFlagStep
    \/ DryrunStep

SpecFlag == Init /\ [][NextFlag]_vars

\* ---- a ChessState on its own: set, delete, move, rotate, swap, load
\* the keys given to a ChessState: four inside the grid, closed under
\* rotate_pieces, and two outside it
BoardKeys == {<<0, 0>>, <<8, 9>>, <<4, 4>>, <<4, 5>>, <<-1, 0>>, <<0, 10>>}

\* the values given to __setitem__: str values and the int 10 (val is its
\* repr)
PieceInputs ==
    {[type |-> "str", val |-> "R"], [type |-> "str", val |-> "Rr"],
     [type |-> "str", val |-> ""], [type |-> "str", val |-> "X"],
     [type |-> "int", val |-> "10"]}

\* the dicts given to load_from_dict: two saved states, and dicts with a
\* key outside the grid or a value that is no piece symbol
LoadInputs ==
    {save_to_dict(FillState(<<<<0, 0, "R">>, <<4, 5, "r">>>>, 2)),
     <<[key |-> "(0, 0)", piece |-> "R"], [key |-> "(0, 10)", piece |-> "r"]>>,
     <<[key |-> "(4, 4)", piece |-> "Rr"]>>,
     <<[key |-> "(4, 4)", piece |-> "X"]>>}

\* the record of a call on the ChessState
StateCall(op, arg, err) == [op |-> op, arg |-> arg, err |-> err]

\* board = ChessState(empty=True)
InitState ==
    /\ recs = <<>>
    /\ rotate_default = FALSE
    /\ snap = <<>>
    /\ bid = FirstBoardId
    /\ board = <<>>
    /\ ret = StateCall("ChessState", <<>>, "")

\* board[key] = value; _check_key comes first, then _check_piece, which
\* raises ValueError for a value that is not a str
SetItemStep ==
    /\ \E key \in BoardKeys, value \in PieceInputs :
          /\ InPieces(board, key) \/ Len(board) < MaxPieces
          /\ \E res \in {IF value.type = "str" THEN SetItem(board, key, value.val)
                         ELSE IF ~_check_key(key) THEN [err |-> "KeyError", state |-> board]
                         ELSE [err |-> "ValueError", state |-> board]} :
                /\ board' = res.state
                /\ ret' = StateCall("__setitem__", <<key, value>>, res.err)
    /\ UNCHANGED <<recs, rotate_default, snap, bid>>

\* del board[key]
DelItemStep ==
    /\ \E key \in BoardKeys :
          \E res \in {DelItem(board, key)} :
             /\ board' = res.state
             /\ ret' = StateCall("__delitem__", key, res.err)
    /\ UNCHANGED <<recs, rotate_default, snap, bid>>

\* board.move(start, end)
StateMoveStep ==
    /\ \E start \in BoardKeys, end \in BoardKeys :
          \E res \in {StateMove(board, start, end)} :
             /\ board' = res.state
             /\ ret' = StateCall("move", <<start, end>>, res.err)
    /\ UNCHANGED <<recs, rotate_default, snap, bid>>

\* board.rotate_pieces()
RotatePiecesStep ==
    /\ board' = rotate_pieces(board)
    /\ ret' = StateCall("rotate_pieces", <<>>, "")
    /\ UNCHANGED <<recs, rotate_default, snap, bid>>

\* board.swap_pieces()
SwapPiecesStep ==
    /\ board' = swap_pieces(board)
    /\ ret' = StateCall("swap_pieces", <<>>, "")
    /\ UNCHANGED <<recs, rotate_default, snap, bid>>

\* board = ChessStateIO.load_from_dict(data); when it raises, board keeps
\* the state it held
LoadFromDictStep ==
    /\ \E data \in LoadInputs :
          /\ Len(data) <= MaxPieces
          /\ \E res \in {load_from_dict(data)} :
                /\ board' = IF res.err = "" THEN res.state ELSE board
                /\ ret' = StateCall("load_from_dict", data, res.err)
    /\ UNCHANGED <<recs, rotate_default, snap, bid>>

NextState ==
    \/ SetItemStep
    \/ DelItemStep
    \/ StateMoveStep
    \/ RotatePiecesStep
    \/ SwapPiecesStep
    \/ LoadFromDictStep

SpecState == InitState /\ [][NextState]_vars

\* ---- check_move as a function of a board, a pair and the flag
\* where the piece under test stands: mid-board, on the last row of the
\* lower river half, and the centre of the lower palace, one row from the
\* edge
MoverStarts == {<<4, 4>>, <<4, 1>>}

\* the pieces around the piece under test, as <<dx, dy, piece>> from its
\* square: none, a piece next to it (a leg, a screen or a target), a screen
\* and a target behind it in a column or a row, a far target alone, and a
\* blocked eye
ExtraConfigs ==
    {<<>>,
     <<<<0, 1, "p">>>>,
     <<<<0, 1, "P">>, <<0, 2, "p">>>>,
     <<<<0, 2, "P">>>>,
     <<<<-1, 0, "P">>>>,
     <<<<0, -1, "p">>, <<1, 1, "P">>>>,
     <<<<1, 0, "p">>, <<2, 0, "P">>>>}

\* the board with piece at pos and the extras around it
CheckBoard(piece, pos, extras) ==
    FillState(<<<<pos[1], pos[2], piece>>>> \o
              [i \in 1..Len(extras) |->
                 <<pos[1] + extras[i][1], pos[2] + extras[i][2], extras[i][3]>>],
              Len(extras) + 1)

\* the record of a check_move call: arg is (start, end, rotate_flag), msg is
\* "" when it returned True
CheckCall(op, arg, msg) == [op |-> op, arg |-> arg, msg |-> msg]

\* a board with one piece of any kind and colour and the pieces around it
InitCheck ==
    /\ recs = <<>>
    /\ rotate_default = FALSE
    /\ snap = <<>>
    /\ bid = FirstBoardId
    /\ \E i \in 1..Len(_VALID_PIECES), pos \in MoverStarts, extras \in ExtraConfigs :
          board = CheckBoard(_VALID_PIECES[i], pos, extras)
    /\ ret = CheckCall("ChessState", <<>>, "")

\* ChessChecker.check_move(board, start, end, rotate_flag), start being the
\* square of the piece under test or the empty square at (+1, -1) from it,
\* end any square up to MaxDelta columns and rows away from the piece.
\* check_move leaves the board as it is, so one call on each board gives
\* every pair of a board and a call.
CheckMoveStep ==
    /\ ret.op = "ChessState"
    /\ \E from \in {<<0, 0>>, <<1, -1>>}, dx \in (-MaxDelta)..MaxDelta,
          dy \in (-MaxDelta)..MaxDelta, rotate_flag \in BOOLEAN :
          \E start \in {<<board[1].pos[1] + from[1], board[1].pos[2] + from[2]>>},
             end \in {<<board[1].pos[1] + dx, board[1].pos[2] + dy>>} :
             ret' = CheckCall("check_move", <<start, end, rotate_flag>>,
                              check_move(board, start, end, rotate_flag))
    /\ UNCHANGED <<recs, rotate_default, snap, board, bid>>

NextCheck ==
    \/ CheckMoveStep

SpecCheck == InitCheck /\ [][NextCheck]_vars

\* ---- normalize_cmds as a function of a text
\* a black horse command, and a command with no numeral at all
CmdBlackHorse == <<"tr_h", "2", "jin", "3">>

CmdNoNumeral == <<"zh_R", "jin">>

\* the commands a text is made of: two red, two black, one of no colour
NormalizeCmds ==
    {CmdRookAdvance, CmdCannon, CmdBlackRookAdvance, CmdBlackHorse, CmdNoNumeral}

\* the commands cmds[i..] joined by the separator sep
RECURSIVE JoinCmds(_, _, _)
JoinCmds(cmds, i, sep) ==
    IF i > Len(cmds) THEN <<>>
    ELSE IF i = Len(cmds) THEN cmds[i]
    ELSE cmds[i] \o sep \o JoinCmds(cmds, i + 1, sep)

\* the record of a normalize_cmds call: arg is (the commands the text was
\* made of, the separator, the turn number before them)
NormalizeCall(arg, text, res) ==
    [op |-> "normalize_cmds", arg |-> arg, text |-> text,
     err |-> res.err, cmds |-> res.cmds, at |-> res.at]

InitNormalize ==
    /\ recs = <<>>
    /\ rotate_default = FALSE
    /\ snap = <<>>
    /\ bid = FirstBoardId
    /\ board = <<>>
    /\ ret = [op |-> "init", arg |-> <<>>, text |-> <<>>, err |-> "", cmds |-> <<>>,
              at |-> 0]

\* ChessParser.normalize_cmds(text) for a text of up to MaxTokens commands,
\* joined by spaces or by a full-width comma and a space, with or without a
\* turn number "1." in front.  normalize_cmds keeps no state, so one call
\* per text gives every call.
NormalizeStep ==
    /\ ret.op = "init"
    /\ \E n \in 0..MaxTokens :
          \E cmds \in [1..n -> NormalizeCmds],
             sep \in {<<" ", " ">>, <<"fw_comma", " ">>},
             number \in {<<>>, <<"1", ".", " ">>} :
             \E text \in {number \o JoinCmds(cmds, 1, sep)} :
                ret' = NormalizeCall(<<cmds, sep, number>>, text, normalize_cmds(text))
    /\ UNCHANGED <<recs, rotate_default, snap, board, bid>>

NextNormalize ==
    \/ NormalizeStep

SpecNormalize == InitNormalize /\ [][NextNormalize]_vars

\* ---- the rotation flag of a copy: rotate, set_rotate_flag, exec, deepcopy
\* and derive
NextFlagCopy ==
    \/ RotateStep
    \/ SetRotateFlagStep
    \/ ExecFlagStep
    \/ DeepcopyStep
    \/ DeriveStep

SpecFlagCopy == Init /\ [][NextFlagCopy]_vars

\* ---- the program keeps the board it gave to the constructor and the
\* boards last() returns, and writes into them
\* rec = ChessRecorder(board) on board = InitBoard
InitOwn ==
    /\ rotate_default = FALSE
    /\ board = InitBoard
    /\ bid = FirstBoardId
    /\ recs = (1 :> NewRecorder(board, None, rotate_default,
                                <<1, 1>>, <<1, 2>>, <<1, 3>>, <<1, 4>>))
    /\ ret = Call("init", 1, <<>>, [err |-> "", msg |-> "", done |-> 0])
    /\ snap = (1 :> NoSnap)

\* board = rec.last(); the program's objects have the identities <<0, n>>
Last(r) ==
    /\ \E res \in {last(recs, r, NthFree({bid}, 0, 1))} :
          /\ board' = res.state
          /\ bid' = res.sid
    /\ ret' = Call("last", r, <<>>, [err |-> "", msg |-> "", done |-> 0])
    /\ UNCHANGED <<recs, rotate_default>>

\* board[key] = value on the board the program holds
BoardSetItem(key, value) ==
    /\ \E res \in {SetItem(board, key, value)} :
          /\ board' = res.state
          /\ recs' = StateWrite(recs, bid, res.state)
          /\ ret' = Call("__setitem__", 1, <<key, value>>,
                         [err |-> res.err, msg |-> "", done |-> 0])
    /\ UNCHANGED <<rotate_default, bid>>

\* del board[key] on the board the program holds
BoardDelItem(key) ==
    /\ \E res \in {DelItem(board, key)} :
          /\ board' = res.state
          /\ recs' = StateWrite(recs, bid, res.state)
          /\ ret' = Call("__delitem__", 1, key, [err |-> res.err, msg |-> "", done |-> 0])
    /\ UNCHANGED <<rotate_default, bid>>

MoveOwnStep ==
    /\ \E r \in DOMAIN recs, m \in MoveInputsCopy : Move(r, m[1], m[2], MaxHistOwn)
    /\ UNCHANGED snap

ExecOwnStep ==
    /\ \E r \in DOMAIN recs, input \in ExecInputsCopy : Exec(r, input, FALSE, MaxHistOwn)
    /\ UNCHANGED snap

LastStep ==
    /\ \E r \in DOMAIN recs : Last(r)
    /\ UNCHANGED snap

BoardSetItemStep ==
    /\ BoardSetItem(<<4, 5>>, "C")
    /\ UNCHANGED snap

BoardDelItemStep ==
    /\ BoardDelItem(<<0, 0>>)
    /\ UNCHANGED snap

NextOwn ==
    \/ MoveOwnStep
    \/ ExecOwnStep
    \/ RollbackCopyStep
    \/ SetCheckpointCopyStep
    \/ DeepcopyStep
    \/ DeriveStep
    \/ LastStep
    \/ BoardSetItemStep
    \/ BoardDelItemStep

SpecOwn == InitOwn /\ [][NextOwn]_vars

\* ---- parse_cmd as a function of the board, the command and the flags
\* ChessState._DEFALUT_STATE, in the order the dict literal lists it
_DEFALUT_STATE ==
    FillState(<<<<0, 0, "R">>, <<1, 0, "H">>, <<2, 0, "E">>, <<3, 0, "A">>, <<4, 0, "K">>,
                <<5, 0, "A">>, <<6, 0, "E">>, <<7, 0, "H">>, <<8, 0, "R">>,
                <<1, 2, "C">>, <<7, 2, "C">>,
                <<0, 3, "P">>, <<2, 3, "P">>, <<4, 3, "P">>, <<6, 3, "P">>, <<8, 3, "P">>,
                <<0, 6, "p">>, <<2, 6, "p">>, <<4, 6, "p">>, <<6, 6, "p">>, <<8, 6, "p">>,
                <<1, 7, "c">>, <<7, 7, "c">>,
                <<0, 9, "r">>, <<1, 9, "h">>, <<2, 9, "e">>, <<3, 9, "a">>, <<4, 9, "k">>,
                <<5, 9, "a">>, <<6, 9, "e">>, <<7, 9, "h">>, <<8, 9, "r">>>>, 32)

\* ChessState(empty, rotate): the argument rotate is None or a bool, default is
\* utils._rotate_flag_default
ChessState(empty, rotate_arg, default) ==
    LET pieces == IF empty THEN <<>> ELSE _DEFALUT_STATE
    IN IF rotate_arg = None
       THEN (IF default THEN rotate_pieces(pieces) ELSE pieces)
       ELSE (IF rotate_arg[1] THEN rotate_pieces(pieces) ELSE pieces)

\* a board with one piece of every kind and colour in column 4 or column 0
AllKindsBoard ==
    FillState(<<<<4, 0, "K">>, <<4, 1, "A">>, <<4, 2, "E">>, <<4, 3, "H">>, <<4, 4, "C">>,
                <<4, 5, "c">>, <<4, 6, "h">>, <<4, 7, "e">>, <<4, 8, "a">>, <<4, 9, "k">>,
                <<0, 0, "R">>, <<0, 3, "P">>, <<0, 6, "p">>, <<0, 9, "r">>>>, 14)

\* a board with three red rooks in column 0, two red horses and two black
\* pawns in column 4, two black rooks in column 8 and red pawns in two
\* columns; the rooks are not set in the order of their rows
ColumnBoard ==
    FillState(<<<<0, 5, "R">>, <<0, 0, "R">>, <<0, 2, "R">>, <<4, 1, "H">>, <<4, 3, "H">>,
                <<4, 4, "P">>, <<0, 3, "P">>, <<4, 6, "p">>, <<4, 5, "p">>,
                <<8, 9, "r">>, <<8, 7, "r">>>>, 11)

\* the same mapping as state, populated in the opposite order
Reordered(state) ==
    FillState([i \in 1..Len(state) |->
                 <<state[Len(state) + 1 - i].pos[1], state[Len(state) + 1 - i].pos[2],
                   state[Len(state) + 1 - i].piece>>], Len(state))

NotationBoards(default) ==
    {AllKindsBoard, ColumnBoard, Reordered(ColumnBoard),
     ChessState(FALSE, None, default), ChessState(FALSE, Some(TRUE), default)}

PieceGlyphs == RED_PIECES \cup BLACK_PIECES

\* the commands of the default form and of the form with a leading
\* "qian" / "zhong" / "hou", over the columns 5 and 9 and the operands 1, 3, 4
\* (and 0 for black), and the opening command of the cannon
NotationCmds ==
    {<<piece_ch, col_ch, op_type, op_arg_ch>> :
        piece_ch \in PieceGlyphs, col_ch \in {"cn5", "cn9"},
        op_type \in {"ping", "jin", "tui"}, op_arg_ch \in {"cn1", "cn3", "cn4"}}
    \cup
    {<<piece_ch, col_ch, op_type, op_arg_ch>> :
        piece_ch \in PieceGlyphs, col_ch \in {"5", "9"},
        op_type \in {"ping", "jin", "tui"}, op_arg_ch \in {"0", "1", "3", "4"}}
    \cup
    {<<keyword, piece_ch, op_type, op_arg_ch>> :
        keyword \in HARD_MODE_KEYWORDS, piece_ch \in PieceGlyphs,
        op_type \in {"ping", "jin", "tui"},
        op_arg_ch \in {"cn1", "cn3", "cn4", "0", "1", "3", "4"}}
    \cup {CmdCannon}

\* the record of a parse_cmd call on the board: arg is (cmd, rotate_flag,
\* strict_flag), err is "" when a pair was returned
NotationCall(op, arg, res) ==
    [op |-> op, arg |-> arg, err |-> res.err, start |-> res.start, end |-> res.end]

\* utils._rotate_flag_default is as the module sets it: set_rotate_flag is
\* not called
InitNotation ==
    /\ recs = <<>>
    /\ rotate_default = FALSE
    /\ snap = <<>>
    /\ bid = FirstBoardId
    /\ board \in NotationBoards(rotate_default)
    /\ ret = NotationCall("ChessState", <<>>, [err |-> "", start |-> <<0, 0>>, end |-> <<0, 0>>])

\* ChessParser.parse_cmd(board, cmd, rotate_flag, strict_flag)
ParseCmdOnBoard(cmd, rotate_flag, strict_flag) ==
    /\ \E res \in {parse_cmd(board, cmd, rotate_flag, strict_flag, rotate_default)} :
          ret' = NotationCall("parse_cmd", <<cmd, rotate_flag, strict_flag>>, res)
    /\ UNCHANGED <<recs, rotate_default, snap, board, bid>>

\* parse_cmd leaves the board as it is, so one call on each board gives
\* every pair of a board and a call
ParseCmdOnBoardStep ==
    /\ ret.op = "ChessState"
    /\ \E cmd \in NotationCmds, rotate_flag \in {None, Some(FALSE), Some(TRUE)},
          strict_flag \in BOOLEAN :
           ParseCmdOnBoard(cmd, rotate_flag, strict_flag)

NextNotation ==
    \/ ParseCmdOnBoardStep

SpecNotation == InitNotation /\ [][NextNotation]_vars

\* ------------------------------------------------------------ properties
\* the first n nodes of a history
Prefix(history, n) == SubSeq(history, 1, n)

\* the colour of the piece at start
MoverColor(state, start) == IF IsUpper(GetItem(state, start)) THEN "red" ELSE "black"

\* state with the piece at start relocated to end, as a mapping: end holds
\* the piece, start nothing, every other position what it held
Relocated(state, start, end) ==
    {e \in AsMap(state) : e[1] \notin {start, end}} \cup {<<end, GetItem(state, start)>>}

\* C1 as stated: move(start, end) on a history of length N fails exactly when
\* check_move rejects the move or the mover's colour is that of the preceding
\* move, and then changes nothing; otherwise it appends one node (length
\* N + 1) whose state is the last state with the piece relocated from start
\* to end, with trace (start, end) and the mover's colour; the first N nodes
\* and the checkpoint table are unchanged.
C1_MoveContract ==
    [][ret'.op = "move"
       => LET r == ret'.rid
              start == ret'.arg[1]
              end == ret'.arg[2]
              N == Len(recs[r].history)
              last_node == LastNode(recs[r])
              rejected == check_move(last_node.state, start, end, recs[r].rotate_flag) # ""
              same_color == ~rejected /\ MoverColor(last_node.state, start) = last_node.extra_info.color
          IN IF rejected \/ same_color
             THEN ret'.err # "" /\ recs' = recs
             ELSE /\ ret'.err = ""
                  /\ Len(recs'[r].history) = N + 1
                  /\ Prefix(recs'[r].history, N) = recs[r].history
                  /\ AsMap(LastNode(recs'[r]).state) = Relocated(last_node.state, start, end)
                  /\ LastNode(recs'[r]).trace = <<start, end>>
                  /\ LastNode(recs'[r]).extra_info.color = MoverColor(last_node.state, start)
                  /\ recs'[r].checkpoints = recs[r].checkpoints]_vars

\* the commands of a raw text, without the check of alternation
Tokens(text) == SplitCmds(StripTurnNumbers(text, 1), 1, <<>>)

\* The run of cmds[i..] one after another from a last state and the colour
\* of the preceding move: n is the number of commands before the first one
\* that fails (in parse_cmd, in check_move, by its colour or in the state's
\* own move), state and color what the last of them leaves.
RECURSIVE RunCmds(_, _, _, _, _, _, _)
RunCmds(state, pre_color, cmds, i, rotate_flag, strict_flag, default) ==
    IF i > Len(cmds) THEN [n |-> 0, state |-> state, color |-> pre_color]
    ELSE LET parsed == parse_cmd(state, cmds[i], Some(rotate_flag), strict_flag, default)
             stop == [n |-> 0, state |-> state, color |-> pre_color]
         IN IF parsed.err # "" THEN stop
            ELSE IF check_move(state, parsed.start, parsed.end, rotate_flag) # "" THEN stop
            ELSE IF MoverColor(state, parsed.start) = pre_color THEN stop
            ELSE IF StateMove(state, parsed.start, parsed.end).err # "" THEN stop
            ELSE LET rest == RunCmds(StateMove(state, parsed.start, parsed.end).state,
                                     MoverColor(state, parsed.start), cmds, i + 1,
                                     rotate_flag, strict_flag, default)
                 IN [rest EXCEPT !.n = @ + 1]

\* what exec(input, strict_flag) on recorder r must commit, the commands
\* being cmds
ExecCommits(r, cmds, strict_flag) ==
    LET N == Len(recs[r].history)
        last_node == LastNode(recs[r])
        run == RunCmds(last_node.state, last_node.extra_info.color, cmds, 1,
                       recs[r].rotate_flag, strict_flag, rotate_default)
    IN /\ (ret'.err = "") = (run.n = Len(cmds))
       /\ Len(recs'[r].history) = N + run.n
       /\ Prefix(recs'[r].history, N) = recs[r].history
       /\ StateEq(LastNode(recs'[r]).state, run.state)
       /\ LastNode(recs'[r]).extra_info.color = run.color
       /\ recs'[r].checkpoints = recs[r].checkpoints

\* C7 as stated: exec of a raw text or of a command list runs the commands in
\* order, each parsed against the then-current last state; when command k is
\* the first to fail, exactly the commands 1..k-1 are committed (the history
\* has grown by k-1 nodes), and when none fails all are.
C7_AsStated ==
    [][(ret'.op = "exec" /\ ret'.arg[1].kind \in {"str", "list"})
       => ExecCommits(ret'.rid,
                      IF ret'.arg[1].kind = "str" THEN Tokens(ret'.arg[1].val)
                      ELSE SelectSeq(ret'.arg[1].val, LAMBDA c : c # <<>>),
                      ret'.arg[2])]_vars

\* C7: exec of a command list, or of a raw text that normalize_cmds accepts,
\* runs the non-empty commands in order, each parsed against the then-current
\* last state; when command k is the first to fail, exactly the commands
\* 1..k-1 are committed, and when none fails all are.  A raw text that
\* normalize_cmds rejects (two consecutive commands of one colour) fails
\* before any command runs and commits nothing.
C7_ExecPrefixCommitted ==
    [][(ret'.op = "exec" /\ ret'.arg[1].kind \in {"str", "list"})
       => IF ret'.arg[1].kind = "str" /\ normalize_cmds(ret'.arg[1].val).err # ""
          THEN ret'.err # "" /\ recs' = recs
          ELSE ExecCommits(ret'.rid,
                           IF ret'.arg[1].kind = "str" THEN Tokens(ret'.arg[1].val)
                           ELSE SelectSeq(ret'.arg[1].val, LAMBDA c : c # <<>>),
                           ret'.arg[2])]_vars

\* C7 witness: exec of a list has failed at its second command with the
\* first one committed
C7_Witness ==
    /\ ret.op = "exec"
    /\ ret.arg[1].kind = "list"
    /\ ret.err # ""
    /\ ret.done = 1
    /\ Len(recs[ret.rid].history) = ret.len + 1

\* C2: in every recorder (the first one and those made by deepcopy or
\* derive), after any sequence of calls, no two consecutive nodes that both
\* carry a trace have the same mover colour.
C2_Alternation ==
    \A r \in DOMAIN recs :
        \A i \in 1..(Len(recs[r].history) - 1) :
            (recs[r].history[i].trace # NoTrace /\ recs[r].history[i + 1].trace # NoTrace)
            => recs[r].history[i].extra_info.color # recs[r].history[i + 1].extra_info.color

\* C2 witness: a recorder made by deepcopy or derive holds two consecutive
\* moves, the second one just made on it
C2_Witness ==
    /\ ret.op = "move"
    /\ ret.rid = 2
    /\ ret.err = ""
    /\ Len(recs[2].history) = 3
    /\ recs[2].history[2].trace # NoTrace
    /\ recs[2].history[3].trace # NoTrace

\* the objects a recorder holds: its deque, its checkpoint dict, and the
\* state and the extra_info dict of each node
Objects(rec) ==
    {rec.hid, rec.cpid}
        \cup {rec.history[i].sid : i \in 1..Len(rec.history)}
        \cup {rec.history[i].iid : i \in 1..Len(rec.history)}

\* a call on one recorder leaves the history and the checkpoint table of
\* every other recorder unchanged
OthersUnchanged ==
    \A q \in DOMAIN recs :
        (ret'.op \in {"deepcopy", "derive"} \/ q # ret'.rid)
        => /\ recs'[q].history = recs[q].history
           /\ recs'[q].checkpoints = recs[q].checkpoints

\* C8: derive() returns a recorder whose history has length 1 and whose root
\* has the source's last state and no trace; it holds no object of the
\* source, and every later call on either recorder leaves the other's
\* history and checkpoint table unchanged.
C8_DeriveIndependent ==
    [][/\ ret'.op = "derive"
          => /\ Len(recs'[ret'.arg].history) = 1
             /\ StateEq(recs'[ret'.arg].history[1].state, LastNode(recs[ret'.rid]).state)
             /\ recs'[ret'.arg].history[1].trace = NoTrace
             /\ Objects(recs'[ret'.arg]) \cap UsedIds(recs) = {}
       /\ OthersUnchanged]_vars

\* C8 witness: a recorder derived after a move (its root is not the
\* source's root) has made a move of its own, the source still holding its
\* two nodes
C8_Witness ==
    /\ 2 \in DOMAIN recs
    /\ ~StateEq(recs[2].history[1].state, recs[1].history[1].state)
    /\ ret.op = "move"
    /\ ret.rid = 2
    /\ ret.err = ""
    /\ Len(recs[2].history) = 2
    /\ Len(recs[1].history) = 2

\* C9 as stated: deepcopy() returns a recorder whose history (states, traces
\* and metadata, in order) and checkpoint table equal the original's and
\* which holds no object of the original (no node state, no metadata dict,
\* no checkpoint table, no deque); every later call on either recorder leaves
\* the other's history and checkpoint table unchanged.
C9_DeepcopyIndependent ==
    [][/\ ret'.op = "deepcopy"
          => /\ Len(recs'[ret'.arg].history) = Len(recs[ret'.rid].history)
             /\ \A i \in 1..Len(recs[ret'.rid].history) :
                   /\ StateEq(recs'[ret'.arg].history[i].state, recs[ret'.rid].history[i].state)
                   /\ recs'[ret'.arg].history[i].trace = recs[ret'.rid].history[i].trace
                   /\ recs'[ret'.arg].history[i].extra_info
                         = recs[ret'.rid].history[i].extra_info
             /\ recs'[ret'.arg].checkpoints = recs[ret'.rid].checkpoints
             /\ Objects(recs'[ret'.arg]) \cap UsedIds(recs) = {}
       /\ OthersUnchanged]_vars

\* C10 as stated: whenever parse_cmd returns a pair (start, end) for a board,
\* a command, a rotation flag and a strictness mode, check_move on the same
\* board, pair and flag succeeds.
C10_AsStated == ret.op = "check_move" => ret.msg = ""

\* C10: whenever parse_cmd returns a pair (start, end), start holds a piece
\* of the command's colour and kind, so check_move on the same board, pair
\* and flag never fails for a missing piece at start; it may still fail for
\* any other rule (a destination held by the mover's own piece, start = end,
\* a destination off the board).
C10_StartHoldsMover ==
    ret.op = "check_move"
    => LET state == LastNode(recs[ret.rid]).state
           cmd == ret.cmd
           piece_ch == IF cmd[1] \in HARD_MODE_KEYWORDS THEN cmd[2] ELSE cmd[1]
       IN /\ Contains(state, ret.arg[1])
          /\ IsUpper(GetItem(state, ret.arg[1])) = (detect_color(cmd) = "red")
          /\ Lower(GetItem(state, ret.arg[1])) = Lower(GlyphPiece(piece_ch))
          /\ ret.msg # "No piece at start"

\* C10 witness: parse_cmd has returned a pair and check_move has refused it,
\* the destination holding a piece of the mover's colour
C10_Witness ==
    /\ ret.op = "check_move"
    /\ ret.msg = "Cannot capture own piece"
    /\ Contains(LastNode(recs[ret.rid]).state, ret.arg[1])

\* C3: whatever call is made (move, exec, set_checkpoint, rollback,
\* rollback_to_checkpoint, failed or not), the history of every recorder has
\* length >= 1 before and after it, and its node 0 is the same node as
\* before, without a trace: the root made at construction is never removed.
C3_RootNeverRemoved ==
    [][\A r \in DOMAIN recs :
          /\ Len(recs[r].history) >= 1
          /\ Len(recs'[r].history) >= 1
          /\ recs'[r].history[1] = recs[r].history[1]
          /\ recs'[r].history[1].trace = NoTrace]_vars

\* C3 witness: rollback(2) was called on a history of length 2 (one pop
\* more than there are moves) and the history now has length 1
C3_Witness ==
    /\ ret.op = "rollback"
    /\ ret.arg = 2
    /\ ret.len = 2
    /\ Len(recs[ret.rid].history) = 1

\* C4: when rollback_to_checkpoint(name) is called after set_checkpoint(name)
\* and since then only moves (move, exec) have changed the history, it
\* succeeds, the history has the length it had at set_checkpoint, and the
\* last state equals the state that was last at set_checkpoint.
C4_CheckpointExact ==
    [][(/\ ret'.op = "rollback_to_checkpoint"
        /\ ret'.arg \in DOMAIN snap[ret'.rid]
        /\ snap[ret'.rid][ret'.arg].since = "moves")
       => /\ ret'.err = ""
          /\ Len(recs'[ret'.rid].history) = snap[ret'.rid][ret'.arg].len
          /\ StateEq(LastNode(recs'[ret'.rid]).state, snap[ret'.rid][ret'.arg].state)]_vars

\* C4 witness: rollback_to_checkpoint(name) has popped two moves made since
\* set_checkpoint(name)
C4_Witness ==
    /\ ret.op = "rollback_to_checkpoint"
    /\ ret.err = ""
    /\ ret.arg \in DOMAIN snap[ret.rid]
    /\ snap[ret.rid][ret.arg].since = "restored"
    /\ ret.len = snap[ret.rid][ret.arg].len + 2
    /\ Len(recs[ret.rid].history) = snap[ret.rid][ret.arg].len

\* C5 as stated: rollback_to_checkpoint(name) fails with KeyError when name
\* is not in the checkpoint table; otherwise it returns and the history
\* length equals the length recorded under name.
C5_AsStated ==
    [][ret'.op = "rollback_to_checkpoint"
       => IF ret'.arg \notin DOMAIN recs[ret'.rid].checkpoints
          THEN ret'.err = "KeyError" /\ recs' = recs
          ELSE /\ ret'.err = ""
               /\ Len(recs'[ret'.rid].history) = recs[ret'.rid].checkpoints[ret'.arg]]_vars

\* C5: rollback_to_checkpoint(name) fails with KeyError, changing nothing,
\* when name is not in the checkpoint table; otherwise it returns and the
\* history is its first min(N, L) nodes, N being its length at the call and L
\* the length recorded under name: a history shorter than L stays as it is.
C5_TruncatesToRecorded ==
    [][ret'.op = "rollback_to_checkpoint"
       => IF ret'.arg \notin DOMAIN recs[ret'.rid].checkpoints
          THEN ret'.err = "KeyError" /\ recs' = recs
          ELSE /\ ret'.err = ""
               /\ recs'[ret'.rid].history =
                     Prefix(recs[ret'.rid].history,
                            Min(Len(recs[ret'.rid].history),
                                recs[ret'.rid].checkpoints[ret'.arg]))
               /\ recs'[ret'.rid].checkpoints = recs[ret'.rid].checkpoints]_vars

\* C5 witness: rollback_to_checkpoint(name) has returned on a history shorter
\* than the length recorded under name
C5_Witness ==
    /\ ret.op = "rollback_to_checkpoint"
    /\ ret.err = ""
    /\ ret.arg \in DOMAIN recs[ret.rid].checkpoints
    /\ ret.len < recs[ret.rid].checkpoints[ret.arg]
    /\ Len(recs[ret.rid].history) = ret.len

\* C6: rollback(steps) with steps < 0 fails and changes nothing; with
\* steps >= 0 on a history of length N it returns and the history is its
\* first max(1, N - steps) nodes, unchanged.
C6_RollbackSteps ==
    [][ret'.op = "rollback"
       => IF ret'.arg < 0
          THEN ret'.err = "ValueError" /\ recs' = recs
          ELSE /\ ret'.err = ""
               /\ recs'[ret'.rid].history =
                     Prefix(recs[ret'.rid].history,
                            Max(1, Len(recs[ret'.rid].history) - ret'.arg))
               /\ recs'[ret'.rid].checkpoints = recs[ret'.rid].checkpoints]_vars

\* C6 witness: rollback(2) at length 3 has left the root only
C6_Witness ==
    /\ ret.op = "rollback"
    /\ ret.err = ""
    /\ ret.arg = 2
    /\ ret.len = 3
    /\ Len(recs[ret.rid].history) = 1


\* C11: on the same recorder state, exec of a command and dryrun of the same
\* command resolve it to the same (start, end), whatever the process-wide
\* default flag is and whether or not rotate() was called: whenever exec of
\* the one command would commit it, dryrun (called without a rotate_flag of
\* its own) returns the trace of the node exec would append.
C11_SameResolution ==
    [][(ret'.op = "dryrun" /\ Len(ret'.arg[1]) = 1 /\ ret'.arg[2] = None)
       => \A e \in {exec(recs, ret'.rid, [kind |-> "list", val |-> ret'.arg[1]],
                         ret'.arg[3], rotate_default)} :
            e.err = ""
            => /\ ret'.err = ""
               /\ ret'.arrows = <<LastNode(e.recs[ret'.rid]).trace>>]_vars

\* the 14 piece symbols
PieceSymbols == {_VALID_PIECES[i] : i \in 1..Len(_VALID_PIECES)}

\* C12: after any sequence of set, remove, move, rotate, swap_colors and
\* deserialization, every key of the board lies in columns 0..8 x rows 0..9
\* and every value is one of the 14 single-character piece symbols.
C12_BoardInvariant ==
    \A i \in 1..Len(board) :
        /\ board[i].pos[1] \in 0..8
        /\ board[i].pos[2] \in 0..9
        /\ board[i].piece \in PieceSymbols

\* C13: ChessState.move(start, end) fails and leaves the state unchanged when
\* start is unoccupied; for an occupied start and an end inside the grid it
\* returns, and afterwards end holds the piece that was at start, start is
\* unoccupied and every other position holds what it held.
C13_MoveRelocates ==
    [][ret'.op = "move" /\ ret'.arg \in BoardKeys \X BoardKeys
       => IF ~InPieces(board, ret'.arg[1])
          THEN ret'.err # "" /\ board' = board
          ELSE _check_key(ret'.arg[2])
               => /\ ret'.err = ""
                  /\ AsMap(board') = Relocated(board, ret'.arg[1], ret'.arg[2])
                  /\ ~InPieces(board', ret'.arg[1])]_vars

\* ---- check_move: the call recorded in ret, on the board it was made on
RedSymbols == {"R", "H", "E", "A", "C", "P", "K"}

Occupied(state, pos) == \E e \in AsMap(state) : e[1] = pos

PieceAt(state, pos) == (CHOOSE e \in AsMap(state) : e[1] = pos)[2]

\* the piece check_move was asked to move, "" when start is unoccupied
Mover == IF Occupied(board, ret.arg[1]) THEN PieceAt(board, ret.arg[1]) ELSE ""

\* that piece is of one of the given symbols
Checked(symbols) == ret.op = "check_move" /\ Mover \in symbols

Dx == ret.arg[2][1] - ret.arg[1][1]

Dy == ret.arg[2][2] - ret.arg[1][2]

\* the side of the piece moved: down for red with the flag false or black
\* with the flag true
MoverSide ==
    IF (Mover \in RedSymbols) = ~ret.arg[3] THEN "down" ELSE "up"

\* the rows of the river half of a side
OwnHalf(side) == IF side = "down" THEN 0..4 ELSE 5..9

\* the end holds a piece of the mover's colour
EndIsOwn ==
    /\ Occupied(board, ret.arg[2])
    /\ (PieceAt(board, ret.arg[2]) \in RedSymbols) = (Mover \in RedSymbols)

\* the common preconditions of check_move
CommonHolds == Occupied(board, ret.arg[1]) /\ ret.arg[1] # ret.arg[2] /\ ~EndIsOwn

\* the squares strictly between two squares of one column or one row
Between(start, end) ==
    IF start[1] = end[1]
    THEN {<<start[1], y>> : y \in (Min(start[2], end[2]) + 1)..(Max(start[2], end[2]) - 1)}
    ELSE IF start[2] = end[2]
    THEN {<<x, start[2]>> : x \in (Min(start[1], end[1]) + 1)..(Max(start[1], end[1]) - 1)}
    ELSE {}

\* the pieces standing strictly between start and end
Blockers == {pos \in Between(ret.arg[1], ret.arg[2]) : Occupied(board, pos)}

Aligned == Dx = 0 \/ Dy = 0

\* C14: check_move rejects, for every piece kind and before any
\* piece-specific rule is applied (the failure is that of the common check),
\* a move whose start is unoccupied, a move with start = end, and a move
\* whose end is occupied by a piece of the mover's own colour.
C14_CommonPreconditions ==
    ret.op = "check_move"
    => /\ ~Occupied(board, ret.arg[1]) => ret.msg = "No piece at start"
       /\ (Occupied(board, ret.arg[1]) /\ ret.arg[1] = ret.arg[2])
          => ret.msg = "Start and end cannot be the same"
       /\ (Occupied(board, ret.arg[1]) /\ ret.arg[1] # ret.arg[2] /\ EndIsOwn)
          => ret.msg = "Cannot capture own piece"
       /\ CommonHolds
          => ret.msg \notin {"No piece at start", "Start and end cannot be the same",
                             "Cannot capture own piece"}

\* C14 witness: a cannon asked to capture a piece of its own colour two
\* squares up its column, over a screen, is refused by the common check
C14_Witness ==
    /\ Checked({"C", "c"})
    /\ Dx = 0 /\ Dy = 2
    /\ Blockers # {}
    /\ ret.msg = "Cannot capture own piece"

\* C15: given the common preconditions, check_move accepts a Rook move if and
\* only if start and end share a column or a row and no piece stands
\* strictly between them; with a blocker on the path it fails with "path
\* blocked", and with the blockers removed the same move succeeds.
C15_Rook ==
    (Checked({"R", "r"}) /\ CommonHolds)
    => /\ ret.msg = "" <=> (Aligned /\ Blockers = {})
       /\ (Aligned /\ Blockers # {})
          => /\ ret.msg = "Rook path blocked"
             /\ check_move(SelectSeq(board, LAMBDA e : e.pos \notin Blockers),
                           ret.arg[1], ret.arg[2], ret.arg[3]) = ""

\* C15 witness: a rook refused for a piece standing on its path
C15_Witness ==
    /\ Checked({"R", "r"})
    /\ CommonHolds
    /\ Blockers # {}
    /\ ret.msg = "Rook path blocked"

Leg ==
    CASE Dx = 2 -> <<ret.arg[1][1] + 1, ret.arg[1][2]>>
      [] Dx = -2 -> <<ret.arg[1][1] - 1, ret.arg[1][2]>>
      [] Dy = 2 -> <<ret.arg[1][1], ret.arg[1][2] + 1>>
      [] OTHER -> <<ret.arg[1][1], ret.arg[1][2] - 1>>

\* C17: given the common preconditions, check_move accepts a Horse move if
\* and only if (|dx|, |dy|) is (1, 2) or (2, 1) and the leg square is empty,
\* in all eight directions.
C17_Horse ==
    (Checked({"H", "h"}) /\ CommonHolds)
    => (ret.msg = ""
        <=> /\ <<Dx, Dy>> \in {<<1, 2>>, <<1, -2>>, <<-1, 2>>, <<-1, -2>>,
                               <<2, 1>>, <<2, -1>>, <<-2, 1>>, <<-2, -1>>}
            /\ ~Occupied(board, Leg))

\* C17 witness: a horse moves two columns to the left and one row down, its
\* leg free, while the squares above and to the right of it are taken
C17_Witness ==
    /\ Checked({"H", "h"})
    /\ CommonHolds
    /\ <<Dx, Dy>> = <<-2, -1>>
    /\ Len(board) > 1
    /\ ret.msg = ""

\* C18: given the common preconditions, check_move accepts an Elephant move
\* if and only if (|dx|, |dy|) = (2, 2), the diagonal midpoint is empty, and
\* the destination row is on the mover's own river half (rows 0-4 for side
\* down, rows 5-9 for side up).
C18_Elephant ==
    (Checked({"E", "e"}) /\ CommonHolds)
    => (ret.msg = ""
        <=> /\ <<Dx, Dy>> \in {<<2, 2>>, <<2, -2>>, <<-2, 2>>, <<-2, -2>>}
            /\ ~Occupied(board, <<ret.arg[1][1] + (Dx \div 2), ret.arg[1][2] + (Dy \div 2)>>)
            /\ ret.arg[2][2] \in OwnHalf(MoverSide))

Colour(cmd) ==
    IF \E i \in 1..Len(cmd) : cmd[i] \in {"0", "1", "2", "3", "4", "5", "6", "7", "8", "9"}
    THEN "black"
    ELSE IF \E i \in 1..Len(cmd) :
              cmd[i] \in {"cn1", "cn2", "cn3", "cn4", "cn5", "cn6", "cn7", "cn8", "cn9", "cn10"}
    THEN "red"
    ELSE "none"

\* the tokens that have the colour of their predecessor
SameAsPrevious(cmds) == {i \in 2..Len(cmds) : Colour(cmds[i]) = Colour(cmds[i - 1])}

\* C20: for a text whose tokens all have a colour, normalize returns the
\* tokens in their original order if every token's colour is the opposite
\* of its predecessor's; otherwise it fails at the first token that has the
\* colour of its predecessor, and returns nothing.  It returns only if every
\* token has a colour.
C20_Normalize ==
    ret.op = "normalize_cmds"
    => LET cmds == ret.arg[1]
       IN /\ (\A i \in 1..Len(cmds) : Colour(cmds[i]) # "none")
             => IF SameAsPrevious(cmds) = {}
                THEN ret.err = "" /\ ret.cmds = cmds
                ELSE /\ ret.err = "ValueError"
                     /\ ret.cmds = <<>>
                     /\ ret.at \in SameAsPrevious(cmds)
                     /\ \A i \in SameAsPrevious(cmds) : ret.at <= i
          /\ (\E i \in 1..Len(cmds) : Colour(cmds[i]) = "none")
             => ret.err = "ValueError" /\ ret.cmds = <<>>

\* C20 witness: a text of three tokens, red, black, black, behind a turn
\* number, fails at the third
C20_Witness ==
    /\ ret.op = "normalize_cmds"
    /\ Len(ret.arg[1]) = 3
    /\ ret.arg[3] # <<>>
    /\ Colour(ret.arg[1][1]) = "red"
    /\ Colour(ret.arg[1][2]) = "black"
    /\ Colour(ret.arg[1][3]) = "black"
    /\ ret.err = "ValueError"
    /\ ret.at = 3

\* ---- the call parse_cmd(board, cmd, rotate_flag, strict_flag) of ret, read
\* from its arguments
NotationCmd == ret.arg[1]

\* the rotation flag of the call, the process-wide default when it is None
NotationFlag == IF ret.arg[2] = None THEN rotate_default ELSE ret.arg[2][1]

DisambiguationForm == NotationCmd[1] \in {"qian", "zhong", "hou"}

NotationGlyph == IF DisambiguationForm THEN NotationCmd[2] ELSE NotationCmd[1]

\* black when the command holds an Arabic digit, else red
NotationColour ==
    IF \E i \in 1..4 : NotationCmd[i] \in {"0", "1", "2", "3", "4", "5", "6", "7", "8", "9"}
    THEN "black" ELSE "red"

\* red is on the lower side unless the board is rotated
NotationSide == IF (NotationColour = "red") = (~NotationFlag) THEN "down" ELSE "up"

\* the kind of the piece glyph, as a lower-case letter
NotationKind ==
    LET glyph == NotationGlyph
    IN CASE glyph \in {"zh_R", "tr_r"} -> "r" [] glyph \in {"zh_H", "tr_h"} -> "h"
         [] glyph \in {"zh_E", "tr_e"} -> "e" [] glyph \in {"zh_A", "tr_a"} -> "a"
         [] glyph \in {"zh_K", "tr_k"} -> "k" [] glyph \in {"zh_C", "tr_c"} -> "c"
         [] glyph \in {"zh_P", "tr_p"} -> "p"

\* the piece symbol of the command: its kind in the case of its colour
NotationSymbol == IF NotationColour = "red" THEN Upper(NotationKind) ELSE NotationKind

\* the number a numeral glyph of the command's colour stands for, 0 for any
\* other glyph
NumeralOf(glyph) ==
    IF NotationColour = "red"
    THEN CASE glyph = "cn1" -> 1 [] glyph = "cn2" -> 2 [] glyph = "cn3" -> 3
           [] glyph = "cn4" -> 4 [] glyph = "cn5" -> 5 [] glyph = "cn6" -> 6
           [] glyph = "cn7" -> 7 [] glyph = "cn8" -> 8 [] glyph = "cn9" -> 9
           [] OTHER -> 0
    ELSE CASE glyph = "1" -> 1 [] glyph = "2" -> 2 [] glyph = "3" -> 3
           [] glyph = "4" -> 4 [] glyph = "5" -> 5 [] glyph = "6" -> 6
           [] glyph = "7" -> 7 [] glyph = "8" -> 8 [] glyph = "9" -> 9
           [] OTHER -> 0

\* the column numeral n names: 8 - (n - 1) for side down, n - 1 for side up
ColumnNamed(glyph) ==
    IF NotationSide = "down" THEN 8 - (NumeralOf(glyph) - 1) ELSE NumeralOf(glyph) - 1

\* the positions of the board that hold the command's piece symbol
SymbolPositions == {e[1] : e \in {m \in AsMap(board) : m[2] = NotationSymbol}}

\* C21: in default form parse_cmd resolves the source to a position of the
\* board that holds the command's piece symbol (of the command's colour) in
\* the column its column numeral n names, 8 - (n - 1) for side down and n - 1
\* for side up, and raises ValueError when there is no such position; on the
\* opening board, not rotated, the cannon command "pao er ping wu" gives
\* start (7, 2) and end (4, 2).
C21_DefaultFormSource ==
    (ret.op = "parse_cmd" /\ ~DisambiguationForm)
    => LET named == {pos \in SymbolPositions :
                        NumeralOf(NotationCmd[2]) # 0 /\ pos[1] = ColumnNamed(NotationCmd[2])}
       IN /\ ret.err = "" => ret.start \in named
          /\ named = {} => ret.err = "ValueError"
          /\ (board = _DEFALUT_STATE /\ NotationCmd = CmdCannon /\ ~NotationFlag)
             => (ret.err = "" /\ ret.start = <<7, 2>> /\ ret.end = <<4, 2>>)

\* C21 witness: the cannon command on the opening board has given (7, 2), (4, 2)
C21_Witness ==
    /\ ret.op = "parse_cmd"
    /\ board = _DEFALUT_STATE
    /\ NotationCmd = CmdCannon
    /\ ~NotationFlag
    /\ ret.start = <<7, 2>>
    /\ ret.end = <<4, 2>>

\* the distance of a position from the own edge of the command's side: row 0
\* for side down, row 9 for side up
EdgeDistance(pos) == IF NotationSide = "down" THEN pos[2] ELSE 9 - pos[2]

\* the positions holding the command's symbol that are nearer to the own
\* edge than pos, and those farther from it
Nearer(pos) == {q \in SymbolPositions : EdgeDistance(q) < EdgeDistance(pos)}

Farther(pos) == {q \in SymbolPositions : EdgeDistance(q) > EdgeDistance(pos)}

\* C24 as stated: with a leading "qian" / "zhong" / "hou" parse_cmd orders
\* the positions holding the piece symbol from the nearest to the mover's own
\* edge to the farthest, and "qian" (front) takes the first of that order,
\* "hou" (back) the last, "zhong" (middle) the second.
C24_AsStated ==
    (ret.op = "parse_cmd" /\ DisambiguationForm /\ ret.err = "")
    => /\ ret.start \in SymbolPositions
       /\ NotationCmd[1] = "qian" => Nearer(ret.start) = {}
       /\ NotationCmd[1] = "hou" => Farther(ret.start) = {}
       /\ NotationCmd[1] = "zhong" => Cardinality(Nearer(ret.start)) = 1

\* C24: with a leading "qian" / "zhong" / "hou" parse_cmd orders the
\* positions holding the piece symbol from the farthest from the mover's own
\* edge (the most advanced) to the nearest, that is by descending row for
\* side down and by ascending row for side up, and "qian" (front) takes the
\* first of that order, "hou" (back) the last, "zhong" (middle) the second.
C24_MostAdvancedFirst ==
    (ret.op = "parse_cmd" /\ DisambiguationForm /\ ret.err = "")
    => /\ ret.start \in SymbolPositions
       /\ NotationCmd[1] = "qian" => Farther(ret.start) = {}
       /\ NotationCmd[1] = "hou" => Nearer(ret.start) = {}
       /\ NotationCmd[1] = "zhong" => Cardinality(Farther(ret.start)) = 1

\* C24 witness: "qian" has taken, of three pieces of the symbol in a column,
\* the one farthest from the own edge of a side whose own edge is row 9
C24_Witness ==
    /\ ret.op = "parse_cmd"
    /\ NotationCmd[1] = "qian"
    /\ ret.err = ""
    /\ NotationSide = "up"
    /\ Cardinality(SymbolPositions) = 3
    /\ Cardinality(Nearer(ret.start)) = 2

\* the columns of the positions holding the command's symbol
SymbolColumns == {pos[1] : pos \in SymbolPositions}

\* C25: with a leading "qian" / "hou" parse_cmd raises ValueError, returning
\* no pair, when the board holds fewer than 2 pieces of the command's piece
\* symbol (0 or 1); with "zhong" when it holds fewer than 3 (0, 1 or 2); and
\* with any of the three when the pieces of that symbol stand in more than
\* one column.
C25_TooFewFails ==
    (/\ ret.op = "parse_cmd"
     /\ DisambiguationForm
     /\ \/ NotationCmd[1] \in {"qian", "hou"} /\ Cardinality(SymbolPositions) < 2
        \/ NotationCmd[1] = "zhong" /\ Cardinality(SymbolPositions) < 3
        \/ Cardinality(SymbolColumns) > 1)
    => ret.err = "ValueError"

\* the row step toward the opponent: + 1 for side down, - 1 for side up
Forward == IF NotationSide = "down" THEN 1 ELSE -1

\* the number of rows an accepted command moves by: its operand for
\* Rook / Cannon / King / Pawn, 1 for the Advisor, 2 for the Elephant, and
\* for the Horse 2 when it shifts one column and 1 when it shifts two
StepCount ==
    LET shift == IF ret.end[1] >= ret.start[1] THEN ret.end[1] - ret.start[1]
                 ELSE ret.start[1] - ret.end[1]
    IN CASE NotationKind \in {"r", "c", "k", "p"} -> NumeralOf(NotationCmd[4])
         [] NotationKind = "a" -> 1
         [] NotationKind = "e" -> 2
         [] NotationKind = "h" -> IF shift = 1 THEN 2 ELSE 1

\* C26: for every command parse_cmd accepts, with "jin" (advance) the
\* destination row is the source row moved toward the opponent (up the rows
\* for side down, down the rows for side up) by the step count; with "tui"
\* (retreat) it is moved by the same count the other way; with "ping"
\* (traverse) it is the source row.
C26_RowChange ==
    (ret.op = "parse_cmd" /\ ret.err = "")
    => /\ NotationCmd[3] = "jin" => ret.end[2] = ret.start[2] + Forward * StepCount
       /\ NotationCmd[3] = "tui" => ret.end[2] = ret.start[2] - Forward * StepCount
       /\ NotationCmd[3] = "ping" => ret.end[2] = ret.start[2]
       /\ NotationKind = "h" => (ret.end[1] - ret.start[1]) \in {-2, -1, 1, 2}

\* C26 witness: a horse of side up has advanced, two columns aside and one
\* row down
C26_Witness ==
    /\ ret.op = "parse_cmd"
    /\ ret.err = ""
    /\ NotationKind = "h"
    /\ NotationSide = "up"
    /\ NotationCmd[3] = "jin"
    /\ ret.end[1] - ret.start[1] \in {-2, 2}
    /\ ret.end[2] = ret.start[2] - 1

\* the positions of the 9 x 10 grid
InGrid(pos) == pos[1] \in 0..8 /\ pos[2] \in 0..9

\* C27: every pair (start, end) parse_cmd returns has both positions inside
\* the grid, columns 0..8 and rows 0..9, whatever the piece kind, the
\* operation, the colour and the rotation flag.
C27_InsideGrid ==
    (ret.op = "parse_cmd" /\ ret.err = "") => (InGrid(ret.start) /\ InGrid(ret.end))

\* C29: parse_cmd depends on the board only as a mapping from positions to
\* pieces: on every board that is the same mapping, populated in another
\* order, the same command, rotation flag and strictness mode give the same
\* pair (start, end), or fail as well.
C29_OrderIndependent ==
    ret.op = "parse_cmd"
    => \A other \in NotationBoards(rotate_default) :
          AsMap(other) = AsMap(board)
          => LET res == parse_cmd(other, ret.arg[1], ret.arg[2], ret.arg[3], rotate_default)
             IN IF ret.err = ""
                THEN res.err = "" /\ res.start = ret.start /\ res.end = ret.end
                ELSE res.err # ""

\* C28: check_move never accepts a move whose end lies outside the grid:
\* for every board, occupied start, rotation flag and end with a column
\* outside 0..8 or a row outside 0..9 it refuses the move.
C28_RejectsOffGrid ==
    (ret.op = "check_move" /\ Occupied(board, ret.arg[1]) /\ ~InGrid(ret.arg[2]))
    => ret.msg # ""

\* C23: a checkpoint entry is a history length that only set_checkpoint of
\* the same name changes: move, exec, rollback and rollback_to_checkpoint
\* leave the checkpoint table as it is, and set_checkpoint(name) sets the
\* entry of name to the current length and leaves every other entry.  So
\* when the history was rolled back below a recorded length and has grown
\* past it again, rollback_to_checkpoint(name) still cuts it to the length
\* recorded at set_checkpoint(name).
C23_CheckpointIsLength ==
    [][LET r == ret'.rid
           name == ret'.arg
       IN /\ ret'.op \in {"move", "exec", "rollback", "rollback_to_checkpoint"}
             => recs'[r].checkpoints = recs[r].checkpoints
          /\ ret'.op = "set_checkpoint"
             => /\ DOMAIN recs'[r].checkpoints = (DOMAIN recs[r].checkpoints) \cup {name}
                /\ recs'[r].checkpoints[name] = Len(recs[r].history)
                /\ \A n \in (DOMAIN recs[r].checkpoints) \ {name} :
                      recs'[r].checkpoints[n] = recs[r].checkpoints[n]
          /\ (/\ ret'.op = "rollback_to_checkpoint"
              /\ name \in DOMAIN snap[r]
              /\ snap[r][name].since = "other"
              /\ Len(recs[r].history) > snap[r][name].len)
             => /\ ret'.err = ""
                /\ recs'[r].history = Prefix(recs[r].history, snap[r][name].len)]_vars

\* C23 witness: after set_checkpoint(name) the history was rolled back below
\* the recorded length and has grown past it by other moves;
\* rollback_to_checkpoint(name) has cut it to the recorded length, and the
\* last state is not the state that was last at set_checkpoint(name)
C23_Witness ==
    /\ ret.op = "rollback_to_checkpoint"
    /\ ret.err = ""
    /\ ret.arg \in DOMAIN snap[ret.rid]
    /\ snap[ret.rid][ret.arg].since = "other"
    /\ ret.len > snap[ret.rid][ret.arg].len
    /\ Len(recs[ret.rid].history) = snap[ret.rid][ret.arg].len
    /\ ~StateEq(LastNode(recs[ret.rid]).state, snap[ret.rid][ret.arg].state)

\* C30: derive() and deepcopy() return a recorder whose rotation flag is the
\* source recorder's flag at the call, whatever the process-wide default flag
\* is and however often rotate() was called on the source.
C30_CopyKeepsFlag ==
    [][ret'.op \in {"derive", "deepcopy"}
       => recs'[ret'.arg].rotate_flag = recs[ret'.rid].rotate_flag]_vars

\* C22: no node's state changes once the node is in a history: whatever
\* call is made (move, exec, rollback, set_checkpoint, last, derive,
\* deepcopy) and whatever is written into the board given to the constructor
\* or into a board last() returned, every node a history holds before and
\* after the step has the state it had.
C22_NodeStatesKept ==
    [][\A r \in DOMAIN recs :
          \A i \in 1..Min(Len(recs[r].history), Len(recs'[r].history)) :
             /\ recs'[r].history[i].state = recs[r].history[i].state
             /\ recs'[r].history[i].sid = recs[r].history[i].sid]_vars

\* C22 witness: the program has written into a board last() returned after
\* a move, and the last node still has the state the move gave it
C22_Witness ==
    /\ ret.op = "__setitem__"
    /\ ret.err = ""
    /\ bid # FirstBoardId
    /\ Len(recs[1].history) > 1
    /\ InPieces(board, <<4, 5>>)
    /\ ~InPieces(LastNode(recs[1]).state, <<4, 5>>)
    /\ \E e \in AsMap(LastNode(recs[1]).state) : e \in AsMap(board) /\ e[1] = <<0, 1>>

=============================================================================
